---- MODULE Spec2Model ----
(***************************************************************************)
(* The transcript analyzer: the inference client's retry loop, the token   *)
(* budget chunker, the job store and the job manager's worker pool.        *)
(*                                                                         *)
(* Texts are TLA+ strings, so lengths, token estimates and error messages  *)
(* are those the code computes.  A Python exception is a record            *)
(* [cls, msg] with msg = str(e).  None is the string "" where the code     *)
(* only tests truthiness, and the record No* where it tests identity.      *)
(***************************************************************************)
EXTENDS Naturals, Sequences, FiniteSets, TLC

VARIABLES
    gen,            \* the generate call under study (SpecGen)
    max_workers,    \* JobManager(max_workers=...)
    jobs,           \* table jobs of the store: job id -> row, or NoRow
    results,        \* table analysis_results: result id -> row, or NoRow
    work_queue,     \* ThreadPoolExecutor work queue (FIFO of work items)
    worker,         \* the pool's threads: position in _run_analysis
    running_jobs,   \* JobManager._running_jobs (keys)
    future,         \* per job: state of its Future and its done-callback
    submitter,      \* position of the thread inside submit_analysis
    blocking,       \* blocking-mode tool calls awaiting OllamaClient.generate
    history,        \* per job: what its execution did (calls issued, error raised)
    clock,          \* datetime.now(), in ticks
    client,         \* a caller of get_job_result / cleanup_old_results
    chunker,        \* a caller of the chunker: its arguments and what it got back
    server          \* server.py: runtime_config, and the tool calls made so far

vars == <<gen, max_workers, jobs, results, work_queue, worker, running_jobs,
          future, submitter, blocking, history, clock, client, chunker, server>>

jobVars == <<max_workers, jobs, results, work_queue, worker, running_jobs,
             future, submitter, blocking, history, clock, client, chunker, server>>

(***************************************************************************)
(* Bounds of the model.                                                    *)
(***************************************************************************)
MaxRetriesArg == 3      \* generate is studied for max_retries in 0..MaxRetriesArg
MaxJobs == 2            \* submit_analysis calls
MaxPool == 2            \* JobManager is built with max_workers in 1..MaxPool
MaxBlocking == 1        \* blocking-mode tool calls

(***************************************************************************)
(* core/ollama.py                                                          *)
(***************************************************************************)
DEFAULT_MAX_RETRIES == 3
DEFAULT_RETRY_DELAY == 2
DEFAULT_TIMEOUT == 300

\* A slip: 500 taken for a gateway error.
RETRYABLE_STATUS_CODES_With500 == {500, 502, 503, 504}

RETRYABLE_STATUS_CODES == {502, 503, 504}

\* What the backend can answer to one POST /api/generate.
\*   ok:      HTTP 200; has_response says whether the JSON body holds "response"
\*   timeout: httpx.TimeoutException
\*   connect: any other httpx.RequestError
\*   status:  raise_for_status() raises httpx.HTTPStatusError(code, text)
Answer(kind, code, text, has_response) ==
    [kind |-> kind, code |-> code, text |-> text, has_response |-> has_response]

StatusCodes == {404, 500, 502, 503, 504}

BackendResponses ==
    { Answer("ok", 200, "summary", TRUE), Answer("ok", 200, "", FALSE),
      Answer("timeout", 0, "", FALSE), Answer("connect", 0, "refused", FALSE) }
    \cup { Answer("status", c, "body" \o ToString(c), FALSE) : c \in StatusCodes }

Retryable(r) ==
    \/ r.kind \in {"timeout", "connect"}
    \/ r.kind = "status" /\ r.code \in RETRYABLE_STATUS_CODES

NoError == [cls |-> "None", msg |-> ""]
Exc(cls, msg) == [cls |-> cls, msg |-> msg]

\* The state of one generate call: the loop variable, last_error, and how the
\* call ended.  log records, in order, every POST (with its answer) and every
\* sleep (with its delay).
NewCall(impl, max_retries, timeout) ==
    [ impl |-> impl, max_retries |-> max_retries, timeout |-> timeout,
      attempt |-> 0, pc |-> "loop", last_error |-> NoError,
      response |-> "", error |-> NoError, log |-> <<>> ]

IdleCall == [NewCall("sync", 0, DEFAULT_TIMEOUT) EXCEPT !.pc = "idle"]

Posted(g, r) == [g EXCEPT !.log = Append(@, <<"post", g.attempt, r>>)]

Returned(g, text) == [g EXCEPT !.pc = "returned", !.response = text]

Raised(g, e) == [g EXCEPT !.pc = "raised", !.error = e]

\* A slip: the bound of the loop off by one (range(max_retries + 2)).
BackoffThenNext_OneMore(g, e) ==
    IF g.attempt < g.max_retries + 1
    THEN [g EXCEPT !.last_error = e,
                   !.log = Append(@, <<"sleep", DEFAULT_RETRY_DELAY * (g.attempt + 1)>>),
                   !.attempt = @ + 1]
    ELSE [g EXCEPT !.last_error = e, !.pc = "raised", !.error = e]

\* A slip: the delay computed from the 0-indexed loop variable.
BackoffThenNext_ZeroIndexed(g, e) ==
    IF g.attempt < g.max_retries
    THEN [g EXCEPT !.last_error = e,
                   !.log = Append(@, <<"sleep", DEFAULT_RETRY_DELAY * g.attempt>>),
                   !.attempt = @ + 1]
    ELSE [g EXCEPT !.last_error = e, !.pc = "raised", !.error = e]

\* A slip: last_error is set once and later failures do not replace it.
BackoffThenNext_KeepFirst(g, e) ==
    LET kept == IF g.last_error # NoError THEN g.last_error ELSE e IN
    IF g.attempt < g.max_retries
    THEN [g EXCEPT !.last_error = kept,
                   !.log = Append(@, <<"sleep", DEFAULT_RETRY_DELAY * (g.attempt + 1)>>),
                   !.attempt = @ + 1]
    ELSE [g EXCEPT !.last_error = kept, !.pc = "raised", !.error = kept]

\* "Wait before retry (except on last attempt)", then the next iteration of
\* range(max_retries + 1), or the raise that follows the loop.
BackoffThenNext(g, e) ==
    IF g.attempt < g.max_retries
    THEN [g EXCEPT !.last_error = e,
                   !.log = Append(@, <<"sleep", DEFAULT_RETRY_DELAY * (g.attempt + 1)>>),
                   !.attempt = @ + 1]
    ELSE [g EXCEPT !.last_error = e, !.pc = "raised", !.error = e]

\* A slip: a timeout ends the call at once instead of counting as one
\* retryable failure.
generate_sync_iteration_TimeoutFatal(g, r) ==
    LET p == Posted(g, r) IN
    CASE r.kind = "ok" ->
            IF r.has_response THEN Returned(p, r.text)
            ELSE Raised(p, Exc("KeyError", "'response'"))
      [] r.kind = "timeout" ->
            Raised(p, Exc("OllamaTimeoutError",
                "Ollama request timed out after " \o ToString(g.timeout) \o "s"))
      [] r.kind = "status" ->
            IF r.code \in RETRYABLE_STATUS_CODES
            THEN BackoffThenNext(p, Exc("OllamaError",
                    "Ollama API error: " \o ToString(r.code)))
            ELSE Raised(p, Exc("OllamaError",
                    "Ollama API error: " \o ToString(r.code) \o " - " \o r.text))
      [] r.kind = "connect" ->
            BackoffThenNext(p, Exc("OllamaError",
                "Failed to connect to Ollama: " \o r.text))

\* One iteration of the loop of generate_sync on the answer r.
generate_sync_iteration(g, r) ==
    LET p == Posted(g, r) IN
    CASE r.kind = "ok" ->
            IF r.has_response THEN Returned(p, r.text)
            ELSE Raised(p, Exc("KeyError", "'response'"))
      [] r.kind = "timeout" ->
            BackoffThenNext(p, Exc("OllamaTimeoutError",
                "Ollama request timed out after " \o ToString(g.timeout) \o "s"))
      [] r.kind = "status" ->
            IF r.code \in RETRYABLE_STATUS_CODES
            THEN BackoffThenNext(p, Exc("OllamaError",
                    "Ollama API error: " \o ToString(r.code)))
            ELSE Raised(p, Exc("OllamaError",
                    "Ollama API error: " \o ToString(r.code) \o " - " \o r.text))
      [] r.kind = "connect" ->
            BackoffThenNext(p, Exc("OllamaError",
                "Failed to connect to Ollama: " \o r.text))

\* A slip: OllamaClient.generate gives up at once when it cannot connect.
generate_iteration_ConnectFatal(g, r) ==
    LET p == Posted(g, r) IN
    CASE r.kind = "ok" ->
            IF r.has_response THEN Returned(p, r.text)
            ELSE Raised(p, Exc("KeyError", "'response'"))
      [] r.kind = "timeout" ->
            BackoffThenNext(p, Exc("OllamaTimeoutError",
                "Ollama request timed out after " \o ToString(g.timeout) \o "s"))
      [] r.kind = "status" ->
            IF r.code \in RETRYABLE_STATUS_CODES
            THEN BackoffThenNext(p, Exc("OllamaError",
                    "Ollama API error: " \o ToString(r.code)))
            ELSE Raised(p, Exc("OllamaError",
                    "Ollama API error: " \o ToString(r.code) \o " - " \o r.text))
      [] r.kind = "connect" ->
            Raised(p, Exc("OllamaError",
                "Failed to connect to Ollama: " \o r.text))

\* One iteration of the loop of OllamaClient.generate on the answer r.
generate_iteration(g, r) ==
    LET p == Posted(g, r) IN
    CASE r.kind = "ok" ->
            IF r.has_response THEN Returned(p, r.text)
            ELSE Raised(p, Exc("KeyError", "'response'"))
      [] r.kind = "timeout" ->
            BackoffThenNext(p, Exc("OllamaTimeoutError",
                "Ollama request timed out after " \o ToString(g.timeout) \o "s"))
      [] r.kind = "status" ->
            IF r.code \in RETRYABLE_STATUS_CODES
            THEN BackoffThenNext(p, Exc("OllamaError",
                    "Ollama API error: " \o ToString(r.code)))
            ELSE Raised(p, Exc("OllamaError",
                    "Ollama API error: " \o ToString(r.code) \o " - " \o r.text))
      [] r.kind = "connect" ->
            BackoffThenNext(p, Exc("OllamaError",
                "Failed to connect to Ollama: " \o r.text))

Iteration(g, r) ==
    IF g.impl = "sync" THEN generate_sync_iteration(g, r) ELSE generate_iteration(g, r)

\* The whole call on the answers rs the backend gives to its successive POSTs.
RunCall(g, rs) ==
    LET after[k \in 0..Len(rs)] ==
            IF k = 0 THEN g
            ELSE IF after[k-1].pc # "loop" THEN after[k-1]
            ELSE Iteration(after[k-1], rs[k])
    IN  after[Len(rs)]

generate_sync(rs, max_retries) ==
    RunCall(NewCall("sync", max_retries, DEFAULT_TIMEOUT), rs)

generate(rs, max_retries) ==
    RunCall(NewCall("async", max_retries, DEFAULT_TIMEOUT), rs)

\* F(x) with x evaluated once (TLC evaluates an operator's argument anew at
\* each use; a bound variable holds a value).
With(x, F(_)) == CHOOSE r \in {F(v) : v \in {x}} : TRUE

----
(***************************************************************************)
(* core/parser.py                                                          *)
(***************************************************************************)
\* Message(role, content, session_id); session_id "" is None.  Timestamps are
\* left out: every caller modelled here formats with include_metadata=False.
Message(role, content, session_id) ==
    [role |-> role, content |-> content, session_id |-> session_id]

NoMessage == Message("None", "", "")

RECURSIVE Join(_, _)
Join(sep, lines) ==
    IF lines = <<>> THEN ""
    ELSE IF Len(lines) = 1 THEN lines[1]
    ELSE lines[1] \o sep \o With(Tail(lines), LAMBDA rest : Join(sep, rest))

RECURSIVE MessageLines(_)
MessageLines(messages) ==
    IF messages = <<>> THEN <<>>
    ELSE << (IF Head(messages).role = "user" THEN "## User" ELSE "## Claude"),
            "", Head(messages).content, "" >>
         \o With(Tail(messages), LAMBDA rest : MessageLines(rest))

format_transcript(messages) ==
    Join("\n",
         <<"# Transcript", "">>
         \o (IF messages # <<>> /\ messages[1].session_id # ""
             THEN <<"Session: " \o messages[1].session_id, "">> ELSE <<>>)
         \o <<"---", "">>
         \o MessageLines(messages))

(***************************************************************************)
(* core/chunker.py                                                         *)
(***************************************************************************)
CHARS_PER_TOKEN == 4
MESSAGE_OVERHEAD_TOKENS == 10

estimate_tokens(text) == Len(text) \div CHARS_PER_TOKEN

estimate_message_tokens(message) ==
    estimate_tokens(message.content) + MESSAGE_OVERHEAD_TOKENS

\* int(target_tokens * 0.8): the float product truncated.  For the integers a
\* token budget takes it is floor(8 * target_tokens / 10).
Threshold(target_tokens) == (target_tokens * 8) \div 10

Turn(user_message, assistant_message, estimated_tokens) ==
    [ user_message |-> user_message, assistant_message |-> assistant_message,
      estimated_tokens |-> estimated_tokens ]

NoTurn == Turn(NoMessage, NoMessage, 0)

TurnMessages(turn) ==
    IF turn.assistant_message # NoMessage
    THEN <<turn.user_message, turn.assistant_message>>
    ELSE <<turn.user_message>>

\* A slip: the reply's estimate replaces the turn's instead of adding to it.
GroupStep_ReplyOnly(st, msg) ==
    IF msg.role = "user"
    THEN [ turns |-> IF st.current_turn # NoTurn
                     THEN Append(st.turns, st.current_turn) ELSE st.turns,
           current_turn |-> Turn(msg, NoMessage, estimate_message_tokens(msg)) ]
    ELSE IF msg.role = "assistant" /\ st.current_turn # NoTurn
    THEN [ st EXCEPT !.current_turn.assistant_message = msg,
                     !.current_turn.estimated_tokens = estimate_message_tokens(msg) ]
    ELSE st

\* The loop of group_into_turns from message i on; st = [turns, current_turn].
GroupStep(st, msg) ==
    IF msg.role = "user"
    THEN [ turns |-> IF st.current_turn # NoTurn
                     THEN Append(st.turns, st.current_turn) ELSE st.turns,
           current_turn |-> Turn(msg, NoMessage, estimate_message_tokens(msg)) ]
    ELSE IF msg.role = "assistant" /\ st.current_turn # NoTurn
    THEN [ st EXCEPT !.current_turn.assistant_message = msg,
                     !.current_turn.estimated_tokens = @ + estimate_message_tokens(msg) ]
    ELSE st

RECURSIVE GroupLoop(_, _)
GroupLoop(st, messages) ==
    IF messages = <<>> THEN st
    ELSE With(GroupStep(st, Head(messages)), LAMBDA v : GroupLoop(v, Tail(messages)))

\* A slip: the turn still open when the messages end is forgotten.
group_into_turns_DropOpen(messages) ==
    GroupLoop([turns |-> <<>>, current_turn |-> NoTurn], messages).turns

group_into_turns(messages) ==
    LET st == GroupLoop([turns |-> <<>>, current_turn |-> NoTurn], messages) IN
    IF st.current_turn # NoTurn THEN Append(st.turns, st.current_turn) ELSE st.turns

RECURSIVE TurnsMessages(_)
TurnsMessages(turns) ==
    IF turns = <<>> THEN <<>>
    ELSE TurnMessages(Head(turns)) \o With(Tail(turns), LAMBDA rest : TurnsMessages(rest))

RECURSIVE SumTokens(_)
SumTokens(turns) ==
    IF turns = <<>> THEN 0
    ELSE Head(turns).estimated_tokens + With(Tail(turns), LAMBDA rest : SumTokens(rest))

Chunk(messages, chunk_index, total_chunks, overlap_count, estimated_tokens) ==
    [ messages |-> messages, chunk_index |-> chunk_index,
      total_chunks |-> total_chunks, overlap_count |-> overlap_count,
      estimated_tokens |-> estimated_tokens ]

\* A slip: overlap_count counts the overlap turns, not their messages.
CloseChunk_OverlapTurnsCounted(overlap_turns_for_next, current_chunk_turns, chunk_index) ==
    Chunk(TurnsMessages(overlap_turns_for_next) \o TurnsMessages(current_chunk_turns),
          chunk_index, 0,
          Len(overlap_turns_for_next),
          SumTokens(current_chunk_turns))

\* The chunk closed from the overlap saved for it and the turns gathered.
CloseChunk(overlap_turns_for_next, current_chunk_turns, chunk_index) ==
    Chunk(TurnsMessages(overlap_turns_for_next) \o TurnsMessages(current_chunk_turns),
          chunk_index, 0,
          Len(TurnsMessages(overlap_turns_for_next)),
          SumTokens(current_chunk_turns))

\* A slip: current_chunk_turns[:overlap_turns], the first turns of the chunk.
LastTurns_FromStart(turns, overlap_turns) ==
    IF overlap_turns > 0
    THEN IF overlap_turns >= Len(turns) THEN turns
         ELSE SubSeq(turns, 1, overlap_turns)
    ELSE <<>>

\* current_chunk_turns[-overlap_turns:] if overlap_turns > 0 else []
LastTurns(turns, overlap_turns) ==
    IF overlap_turns > 0
    THEN IF overlap_turns >= Len(turns) THEN turns
         ELSE SubSeq(turns, Len(turns) - overlap_turns + 1, Len(turns))
    ELSE <<>>

\* A slip: the chunk is closed only once it is already over the target.
BuildStep_LateClose(st, turn, target_tokens, overlap_turns) ==
    IF st.current_tokens > target_tokens
       /\ st.current_chunk_turns # <<>>
    THEN [ chunks |-> Append(st.chunks,
                CloseChunk(st.overlap_turns_for_next, st.current_chunk_turns,
                           Len(st.chunks))),
           overlap_turns_for_next |-> LastTurns(st.current_chunk_turns, overlap_turns),
           current_chunk_turns |-> <<turn>>,
           current_tokens |-> turn.estimated_tokens ]
    ELSE [ st EXCEPT !.current_chunk_turns = Append(@, turn),
                     !.current_tokens = @ + turn.estimated_tokens ]

\* The body of "for i, turn in enumerate(turns)";
\* st = [chunks, current_chunk_turns, current_tokens, overlap_turns_for_next].
BuildStep(st, turn, target_tokens, overlap_turns) ==
    IF st.current_tokens + turn.estimated_tokens > target_tokens
       /\ st.current_chunk_turns # <<>>
    THEN [ chunks |-> Append(st.chunks,
                CloseChunk(st.overlap_turns_for_next, st.current_chunk_turns,
                           Len(st.chunks))),
           overlap_turns_for_next |-> LastTurns(st.current_chunk_turns, overlap_turns),
           current_chunk_turns |-> <<turn>>,
           current_tokens |-> turn.estimated_tokens ]
    ELSE [ st EXCEPT !.current_chunk_turns = Append(@, turn),
                     !.current_tokens = @ + turn.estimated_tokens ]

RECURSIVE BuildLoop(_, _, _, _)
BuildLoop(st, turns, target_tokens, overlap_turns) ==
    IF turns = <<>> THEN st
    ELSE With(BuildStep(st, Head(turns), target_tokens, overlap_turns),
              LAMBDA v : BuildLoop(v, Tail(turns), target_tokens, overlap_turns))

\* A slip: the turns gathered after the last close are forgotten.
BuildChunks_DropLast(turns, target_tokens, overlap_turns) ==
    LET st == BuildLoop([ chunks |-> <<>>, current_chunk_turns |-> <<>>,
                          current_tokens |-> 0, overlap_turns_for_next |-> <<>> ],
                        turns, target_tokens, overlap_turns)
        all == st.chunks
    IN  [i \in 1..Len(all) |-> [all[i] EXCEPT !.total_chunks = Len(all)]]

\* A slip: total_chunks is left at the 0 the chunks were built with.
BuildChunks_Unstamped(turns, target_tokens, overlap_turns) ==
    LET st == BuildLoop([ chunks |-> <<>>, current_chunk_turns |-> <<>>,
                          current_tokens |-> 0, overlap_turns_for_next |-> <<>> ],
                        turns, target_tokens, overlap_turns)
    IN  IF st.current_chunk_turns # <<>>
        THEN Append(st.chunks,
                 CloseChunk(st.overlap_turns_for_next, st.current_chunk_turns,
                            Len(st.chunks)))
        ELSE st.chunks

BuildChunks(turns, target_tokens, overlap_turns) ==
    LET st == BuildLoop([ chunks |-> <<>>, current_chunk_turns |-> <<>>,
                          current_tokens |-> 0, overlap_turns_for_next |-> <<>> ],
                        turns, target_tokens, overlap_turns)
        all == IF st.current_chunk_turns # <<>>
               THEN Append(st.chunks,
                        CloseChunk(st.overlap_turns_for_next, st.current_chunk_turns,
                                   Len(st.chunks)))
               ELSE st.chunks
    IN  [i \in 1..Len(all) |-> [all[i] EXCEPT !.total_chunks = Len(all)]]

ChunkConfig(target_tokens, overlap_turns) ==
    [target_tokens |-> target_tokens, overlap_turns |-> overlap_turns]

ChunkingResult(chunks, total_tokens, total_messages, was_chunked, chunk_config) ==
    [ chunks |-> chunks, total_tokens |-> total_tokens,
      total_messages |-> total_messages, was_chunked |-> was_chunked,
      chunk_config |-> chunk_config ]

\* A slip: a transcript exactly at the threshold is split.
ChunkOrNot_Strict(messages, target_tokens, overlap_turns, total_tokens, turns) ==
        IF messages = <<>>
        THEN ChunkingResult(<<>>, 0, 0, FALSE, <<>>)
        ELSE IF total_tokens < Threshold(target_tokens)
        THEN ChunkingResult(<<Chunk(messages, 0, 1, 0, total_tokens)>>,
                            total_tokens, Len(messages), FALSE,
                            ChunkConfig(target_tokens, overlap_turns))
        ELSE IF turns = <<>>
        THEN ChunkingResult(<<>>, total_tokens, Len(messages), FALSE, <<>>)
        ELSE ChunkingResult(BuildChunks(turns, target_tokens, overlap_turns),
                            total_tokens, Len(messages), TRUE,
                            ChunkConfig(target_tokens, overlap_turns))

ChunkOrNot(messages, target_tokens, overlap_turns, total_tokens, turns) ==
        IF messages = <<>>
        THEN ChunkingResult(<<>>, 0, 0, FALSE, <<>>)
        ELSE IF total_tokens <= Threshold(target_tokens)
        THEN ChunkingResult(<<Chunk(messages, 0, 1, 0, total_tokens)>>,
                            total_tokens, Len(messages), FALSE,
                            ChunkConfig(target_tokens, overlap_turns))
        ELSE IF turns = <<>>
        THEN ChunkingResult(<<>>, total_tokens, Len(messages), FALSE, <<>>)
        ELSE ChunkingResult(BuildChunks(turns, target_tokens, overlap_turns),
                            total_tokens, Len(messages), TRUE,
                            ChunkConfig(target_tokens, overlap_turns))

chunk_messages(messages, target_tokens, overlap_turns) ==
    With(estimate_tokens(format_transcript(messages)), LAMBDA total_tokens :
    With(group_into_turns(messages), LAMBDA turns :
        ChunkOrNot(messages, target_tokens, overlap_turns, total_tokens, turns)))

should_chunk(messages, chunk_threshold) ==
    IF messages = <<>> THEN FALSE
    ELSE estimate_tokens(format_transcript(messages)) > Threshold(chunk_threshold)

\* The size test of _run_analysis:
\* total_tokens > int(self.chunk_tokens * 0.8), on the formatted transcript.
size_test(messages, chunk_tokens) ==
    estimate_tokens(format_transcript(messages)) > Threshold(chunk_tokens)

----
(***************************************************************************)
(* core/storage.py: the two tables as sequences indexed by id.  uuid4() is *)
(* the next unused index; NULL is <<>> and a value v is <<v>>.             *)
(***************************************************************************)
NULL == <<>>
NoRow == [id |-> 0]

\* Time is counted in ticks, TicksPerSecond to the second, and the day of
\* cleanup_old_results (24 * 60 * 60 seconds) is scaled to SecondsPerDay.
TicksPerSecond == 2
SecondsPerDay == 1

\* datetime.isoformat(): the text of a time, as the sequence of its fields;
\* the fraction of the second is left out when it is zero.
isoformat(t) ==
    IF t % TicksPerSecond = 0
    THEN <<t \div TicksPerSecond>>
    ELSE <<t \div TicksPerSecond, t % TicksPerSecond>>

\* datetime.fromisoformat()
fromisoformat(s) == s[1] * TicksPerSecond + (IF Len(s) > 1 THEN s[2] ELSE 0)

\* The order of SQLite on TEXT values: the first field that differs decides,
\* and a text is smaller than every text it is a proper prefix of.
RECURSIVE TextLess(_, _)
TextLess(a, b) ==
    IF b = <<>> THEN FALSE
    ELSE IF a = <<>> THEN TRUE
    ELSE IF Head(a) # Head(b) THEN Head(a) < Head(b)
    ELSE TextLess(Tail(a), Tail(b))

\* now = datetime.now().isoformat()
JobRow(id, type, session_id, status, error_message, result_id) ==
    [ id |-> id, type |-> type, session_id |-> session_id, status |-> status,
      error_message |-> error_message, result_id |-> result_id,
      created_at |-> isoformat(clock), updated_at |-> isoformat(clock) ]

ResultRow(id, type, session_id, model_used, result_text) ==
    [ id |-> id, type |-> type, session_id |-> session_id,
      model_used |-> model_used, result_text |-> result_text,
      created_at |-> isoformat(clock) ]

create_job(js, job_type, session_id) ==
    Append(js, JobRow(Len(js) + 1, job_type, session_id, "PENDING", NULL, NULL))

get_job(js, job_id) ==
    IF job_id \in DOMAIN js THEN js[job_id] ELSE NoRow

\* A slip: the UPDATE never reaches the table.
update_job_status_Lost(js, job_id, status) == js

\* UPDATE jobs SET status = ? WHERE id = ?
update_job_status(js, job_id, status) ==
    [i \in DOMAIN js |->
        IF js[i] # NoRow /\ js[i].id = job_id
        THEN [js[i] EXCEPT !.status = status, !.updated_at = isoformat(clock)]
        ELSE js[i]]

\* A slip: fail_job sets the status and leaves error_message out.
fail_job_NoMessage(js, job_id, error_message) ==
    [i \in DOMAIN js |->
        IF js[i] # NoRow /\ js[i].id = job_id
        THEN [js[i] EXCEPT !.status = "FAILED", !.updated_at = isoformat(clock)]
        ELSE js[i]]

\* UPDATE jobs SET status = 'FAILED', error_message = ? WHERE id = ?
fail_job(js, job_id, error_message) ==
    [i \in DOMAIN js |->
        IF js[i] # NoRow /\ js[i].id = job_id
        THEN [js[i] EXCEPT !.status = "FAILED", !.error_message = <<error_message>>,
                           !.updated_at = isoformat(clock)]
        ELSE js[i]]

\* A slip: the UPDATE of complete_job leaves result_id out.
complete_job_NoLink(js, rs, job_id, result_text, model_used) ==
    LET job == get_job(js, job_id) IN
    IF job = NoRow
    THEN [ jobs |-> js, results |-> rs,
           raised |-> Exc("ValueError", "Job not found: " \o ToString(job_id)) ]
    ELSE [ jobs |-> [i \in DOMAIN js |->
                        IF js[i] # NoRow /\ js[i].id = job_id
                        THEN [js[i] EXCEPT !.status = "COMPLETED",
                                           !.updated_at = isoformat(clock)]
                        ELSE js[i]],
           results |-> Append(rs, ResultRow(Len(rs) + 1, job.type, job.session_id,
                                            model_used, result_text)),
           raised |-> NoError ]

\* complete_job: one transaction inserts the result and links the job to it.
complete_job(js, rs, job_id, result_text, model_used) ==
    LET job == get_job(js, job_id) IN
    IF job = NoRow
    THEN [ jobs |-> js, results |-> rs,
           raised |-> Exc("ValueError", "Job not found: " \o ToString(job_id)) ]
    ELSE [ jobs |-> [i \in DOMAIN js |->
                        IF js[i] # NoRow /\ js[i].id = job_id
                        THEN [js[i] EXCEPT !.status = "COMPLETED",
                                           !.result_id = <<Len(rs) + 1>>,
                                           !.updated_at = isoformat(clock)]
                        ELSE js[i]],
           results |-> Append(rs, ResultRow(Len(rs) + 1, job.type, job.session_id,
                                            model_used, result_text)),
           raised |-> NoError ]

\* SELECT * FROM analysis_results WHERE id = ?
get_result(rs, result_id) ==
    IF result_id \in DOMAIN rs THEN rs[result_id] ELSE NoRow

\* The cutoff of cleanup_old_results(days), as the text it compares with.
cutoff_iso(days) == isoformat(clock - days * SecondsPerDay * TicksPerSecond)

\* A slip: the sweep also deletes the results created at the cutoff.
cleanup_old_results_Inclusive(js, rs, days) ==
    LET old == { r \in DOMAIN rs :
                    rs[r] # NoRow /\ ~TextLess(cutoff_iso(days), rs[r].created_at) }
        kept == [r \in DOMAIN rs |-> IF r \in old THEN NoRow ELSE rs[r]]
    IN  [ jobs |-> [j \in DOMAIN js |->
                        IF /\ js[j] # NoRow
                           /\ js[j].result_id # NULL
                           /\ get_result(kept, js[j].result_id[1]) = NoRow
                        THEN NoRow ELSE js[j]],
          results |-> kept,
          deleted |-> Cardinality(old) ]

\* A slip: the sweep deletes the jobs by their age, whatever their result.
cleanup_old_results_JobsByAge(js, rs, days) ==
    LET old == { r \in DOMAIN rs :
                    rs[r] # NoRow /\ TextLess(rs[r].created_at, cutoff_iso(days)) }
        kept == [r \in DOMAIN rs |-> IF r \in old THEN NoRow ELSE rs[r]]
    IN  [ jobs |-> [j \in DOMAIN js |->
                        IF /\ js[j] # NoRow
                           /\ TextLess(js[j].created_at, cutoff_iso(days))
                        THEN NoRow ELSE js[j]],
          results |-> kept,
          deleted |-> Cardinality(old) ]

\* A slip: the sweep deletes the old results and leaves the jobs that point
\* at them.
cleanup_old_results_ResultsOnly(js, rs, days) ==
    LET old == { r \in DOMAIN rs :
                    rs[r] # NoRow /\ TextLess(rs[r].created_at, cutoff_iso(days)) }
        kept == [r \in DOMAIN rs |-> IF r \in old THEN NoRow ELSE rs[r]]
    IN  [ jobs |-> js,
          results |-> kept,
          deleted |-> Cardinality(old) ]

\* cleanup_old_results: one transaction deletes the results created before
\* the cutoff, then the jobs linked to a result that is no longer there, and
\* returns the number of results deleted.
cleanup_old_results(js, rs, days) ==
    LET old == { r \in DOMAIN rs :
                    rs[r] # NoRow /\ TextLess(rs[r].created_at, cutoff_iso(days)) }
        kept == [r \in DOMAIN rs |-> IF r \in old THEN NoRow ELSE rs[r]]
    IN  [ jobs |-> [j \in DOMAIN js |->
                        IF /\ js[j] # NoRow
                           /\ js[j].result_id # NULL
                           /\ get_result(kept, js[j].result_id[1]) = NoRow
                        THEN NoRow ELSE js[j]],
          results |-> kept,
          deleted |-> Cardinality(old) ]

\* A caller of the chunker: the arguments it passes and, for each function it
\* has called, what came back (NotCalled until then).
NotCalled == [called |-> FALSE]

IdleChunker ==
    [ messages |-> <<>>, target_tokens |-> 0, overlap_turns |-> 0,
      turns |-> NotCalled, result |-> NotCalled, should |-> NotCalled,
      inline |-> NotCalled ]

(***************************************************************************)
(* core/job_manager.py                                                     *)
(***************************************************************************)
\* JobManager(storage, max_workers, chunk_tokens=ChunkTokensArg,
\*            overlap_turns=OverlapTurnsArg), default_model as in the code.
ChunkTokensArg == 30
OverlapTurnsArg == 1
DEFAULT_MODEL == "qwen2.5:72b"

\* submit_analysis: model = model or self.default_model
ModelOrDefault(model) == IF model # "" THEN model ELSE DEFAULT_MODEL

\* server.py: runtime_config["model"] ("" is None).  The rest records the
\* tool calls: the argument of the last set_model call (NoCall before the
\* first), and for each job submitted by run_stenographer the model argument
\* of the request, the argument of the last set_model call before it, and the
\* model handed to submit_analysis.
NoCall == <<>>
IdleServer == [ runtime_config |-> [model |-> ""], last_set_model |-> NoCall,
                requests |-> <<>> ]

\* The session files jobs are submitted for, and what parse_session_file
\* yields for each.
FileContent(session_file) ==
    CASE session_file = "short" ->
            << Message("user", "Hi", ""), Message("assistant", "Hello", "") >>
      [] session_file = "long" ->
            << Message("user", "Please fix login", ""),
               Message("assistant", "Fixed the login.", ""),
               Message("user", "Now add a test.", ""),
               Message("assistant", "Added one test.", ""),
               Message("user", "Thanks, ship it", "") >>
      [] session_file = "edge" ->
            << Message("user", "Review the parser change", ""),
               Message("assistant", "The parser looks fine, merged it.", "") >>
      [] session_file = "over" ->
            << Message("user", "Review the parser change", ""),
               Message("assistant", "The parser looks fine, merged it!!", "") >>
      [] session_file = "replies" ->
            << Message("assistant", "orphan reply one, long enough to pass", ""),
               Message("assistant", "orphan reply two, long enough to pass", "") >>

\* The arguments submit_analysis is called with: the job type, the session
\* file, whether chunk_prompt_template / synthesis_prompt_template are given,
\* and the model ("" is None).
SubmitArg(job_type, session_file, chunk_prompt, synthesis_prompt) ==
    [ job_type |-> job_type, session_file |-> session_file,
      chunk_prompt |-> chunk_prompt, synthesis_prompt |-> synthesis_prompt,
      model |-> "" ]

SubmitArgs ==
    { SubmitArg("stenographer", "short", FALSE, FALSE),
      SubmitArg("stenographer", "long", FALSE, FALSE),
      SubmitArg("insight_extractor", "long", TRUE, TRUE) }

\* The answers the backend gives to the calls of jobs and blocking requests.
JobBackendResponses ==
    { Answer("ok", 200, "summary", TRUE), Answer("timeout", 0, "", FALSE),
      Answer("status", 503, "body503", FALSE), Answer("status", 404, "body404", FALSE) }

JobBackendRuns == [1..(DEFAULT_MAX_RETRIES + 1) -> JobBackendResponses]

CallOutcome(g) == [pc |-> g.pc, response |-> g.response, error |-> g.error]

\* How a generate_sync call of a worker can end.
SyncCallResults ==
    { CallOutcome(generate_sync(rs, DEFAULT_MAX_RETRIES)) : rs \in JobBackendRuns }

\* How an OllamaClient.generate call of a blocking request can end.
AsyncCallResults ==
    { CallOutcome(generate(rs, DEFAULT_MAX_RETRIES)) : rs \in JobBackendRuns }

\* A slip: a third thread in a pool of two.
PoolThreads_OneMore == 1..(max_workers + 1)

\* ThreadPoolExecutor(max_workers=max_workers)
PoolThreads == 1..max_workers

\* A slip: "except OllamaError" where the code has "except Exception".
Caught_OllamaOnly(e) == e.cls \in {"OllamaError", "OllamaTimeoutError"}

\* except Exception as e
Caught(e) ==
    e.cls \in {"OllamaError", "OllamaTimeoutError", "KeyError", "ValueError",
               "FileNotFoundError"}

IdleWorker ==
    [ pc |-> "idle", job_id |-> 0, item |-> SubmitArg("", "", FALSE, FALSE),
      transcript |-> "", kind |-> "", chunks |-> <<>>, index |-> 0,
      chunk_results |-> <<>>, result_text |-> "", error |-> NoError,
      model |-> "" ]

NewFuture == [done |-> FALSE, callback |-> FALSE, exception |-> NoError]

\* What is recorded of a job's execution: the generate calls begun for it, in
\* order, the number of chunks its transcript was split into, the exception
\* raised inside the try block of _run_analysis, if any, and, where the calls
\* are run attempt by attempt (SpecCalls), how each ended call went; models
\* is the model argument of each generate call begun.
NewHistory ==
    [ calls |-> <<>>, n_chunks |-> 0, raised |-> NoError, outcomes |-> <<>>,
      models |-> <<>> ]

CallEntry(kind, chunk_index, total_chunks, transcript, state) ==
    [ kind |-> kind, chunk_index |-> chunk_index, total_chunks |-> total_chunks,
      transcript |-> transcript, state |-> state ]

\* A caller of the store outside the pool: where it is in get_job_result,
\* what the call returned, and what its sweeps did.
IdleClient ==
    [ pc |-> "idle", job_id |-> 0, result_id |-> 0, ret |-> NULL,
      sweeps |-> 0, cutoff |-> <<>>, deleted |-> 0 ]

Init ==
    /\ gen = IdleCall
    /\ max_workers \in 1..MaxPool
    /\ jobs = <<>>
    /\ results = <<>>
    /\ work_queue = <<>>
    /\ worker = [w \in 1..(MaxPool + 1) |-> IdleWorker]
    /\ running_jobs = {}
    /\ future = <<>>
    /\ submitter = [pc |-> "idle", job_id |-> 0]
    /\ blocking = [b \in 1..MaxBlocking |-> [pc |-> "idle", reply |-> ""]]
    /\ history = <<>>
    /\ clock = 0
    /\ client = IdleClient
    /\ chunker = IdleChunker
    /\ server = IdleServer

\* A slip: submit_analysis waits for a free pool thread before it goes on.
SubmitJob_WaitsForWorker(a) ==
    /\ submitter.pc = "idle"
    /\ Len(jobs) < MaxJobs
    /\ \E w \in PoolThreads : worker[w].pc = "idle"
    /\ jobs' = create_job(jobs, a.job_type, a.session_file)
    /\ work_queue' = Append(work_queue, [job_id |-> Len(jobs) + 1, item |-> a,
                                          model |-> ModelOrDefault(a.model)])
    /\ future' = Append(future, NewFuture)
    /\ history' = Append(history, NewHistory)
    /\ submitter' = [pc |-> "register", job_id |-> Len(jobs) + 1]
    /\ UNCHANGED <<server, chunker, clock, client, gen, max_workers, results, worker, running_jobs, blocking>>

\* submit_analysis up to executor.submit: the job row and the queued work item.
SubmitJob(a) ==
    /\ submitter.pc = "idle"
    /\ Len(jobs) < MaxJobs
    /\ jobs' = create_job(jobs, a.job_type, a.session_file)
    /\ work_queue' = Append(work_queue, [job_id |-> Len(jobs) + 1, item |-> a,
                                          model |-> ModelOrDefault(a.model)])
    /\ future' = Append(future, NewFuture)
    /\ history' = Append(history, NewHistory)
    /\ submitter' = [pc |-> "register", job_id |-> Len(jobs) + 1]
    /\ UNCHANGED <<server, chunker, clock, client, gen, max_workers, results, worker, running_jobs, blocking>>

SubmitCreate == \E a \in SubmitArgs : SubmitJob(a)

\* self._running_jobs[job.id] = future
SubmitRegister ==
    /\ submitter.pc = "register"
    /\ running_jobs' = running_jobs \cup {submitter.job_id}
    /\ submitter' = [submitter EXCEPT !.pc = "add_done_callback"]
    /\ UNCHANGED <<server, chunker, clock, client, gen, max_workers, jobs, results, work_queue, worker, future,
                   blocking, history>>

\* A slip: a callback added to a future that is already finished never runs.
SubmitAddCallback_NotAtOnce ==
    /\ submitter.pc = "add_done_callback"
    /\ future' = [future EXCEPT ![submitter.job_id].callback = TRUE]
    /\ submitter' = [pc |-> "idle", job_id |-> 0]
    /\ UNCHANGED <<server, chunker, clock, client, gen, max_workers, jobs, results, work_queue, worker, blocking,
                   history, running_jobs>>

\* future.add_done_callback(...): a callback added to a finished future runs
\* at once; then submit_analysis returns the job.
SubmitAddCallback ==
    /\ submitter.pc = "add_done_callback"
    /\ IF future[submitter.job_id].done
       THEN /\ running_jobs' = running_jobs \ {submitter.job_id}
            /\ UNCHANGED future
       ELSE /\ future' = [future EXCEPT ![submitter.job_id].callback = TRUE]
            /\ UNCHANGED running_jobs
    /\ submitter' = [pc |-> "idle", job_id |-> 0]
    /\ UNCHANGED <<server, chunker, clock, client, gen, max_workers, jobs, results, work_queue, worker, blocking,
                   history>>

\* A pool thread takes the next work item of the queue.
WorkerTake(w) ==
    /\ w \in PoolThreads
    /\ worker[w].pc = "idle"
    /\ work_queue # <<>>
    /\ worker' = [worker EXCEPT ![w] =
            [IdleWorker EXCEPT !.pc = "start", !.job_id = Head(work_queue).job_id,
                               !.item = Head(work_queue).item,
                               !.model = Head(work_queue).model]]
    /\ work_queue' = Tail(work_queue)
    /\ UNCHANGED <<server, chunker, clock, client, gen, max_workers, jobs, results, running_jobs, future, submitter,
                   blocking, history>>

\* An exception raised inside the try block of _run_analysis: the handler
\* takes it, or it leaves the function.
Raise(wk, e) ==
    IF Caught(e) THEN [wk EXCEPT !.pc = "fail", !.error = e]
    ELSE [wk EXCEPT !.pc = "return", !.error = e]

\* A slip: the job is marked RUNNING only after the transcript was read.
WorkerStart_Unmarked(w) ==
    /\ worker[w].pc = "start"
    /\ worker' = [worker EXCEPT ![w].pc = "read"]
    /\ UNCHANGED <<server, chunker, clock, client, gen, max_workers, results, work_queue, running_jobs, future,
                   submitter, blocking, history, jobs>>

\* self.storage.update_job_status(job_id, JobStatus.RUNNING)
WorkerStart(w) ==
    /\ worker[w].pc = "start"
    /\ jobs' = update_job_status(jobs, worker[w].job_id, "RUNNING")
    /\ worker' = [worker EXCEPT ![w].pc = "read"]
    /\ UNCHANGED <<server, chunker, clock, client, gen, max_workers, results, work_queue, running_jobs, future,
                   submitter, blocking, history>>

\* A slip: a transcript of exactly the threshold is chunked too.
AfterRead_AtThreshold(wk, messages) ==
    LET transcript == format_transcript(messages)
        total_tokens == estimate_tokens(transcript)
        chunk_threshold == Threshold(ChunkTokensArg)
        do_chunk == /\ total_tokens >= chunk_threshold
                    /\ wk.item.chunk_prompt
                    /\ wk.item.synthesis_prompt
        chunking_result == chunk_messages(messages, ChunkTokensArg, OverlapTurnsArg)
    IN  IF do_chunk
        THEN [wk EXCEPT !.pc = "issue", !.transcript = transcript,
                        !.chunks = chunking_result.chunks,
                        !.kind = IF chunking_result.chunks = <<>> THEN "reduce" ELSE "map",
                        !.index = 1]
        ELSE [wk EXCEPT !.pc = "issue", !.transcript = transcript, !.kind = "single"]

\* The worker state after the transcript was read: single pass or map-reduce.
AfterRead(wk, messages) ==
    LET transcript == format_transcript(messages)
        total_tokens == estimate_tokens(transcript)
        chunk_threshold == Threshold(ChunkTokensArg)
        do_chunk == /\ total_tokens > chunk_threshold
                    /\ wk.item.chunk_prompt
                    /\ wk.item.synthesis_prompt
        chunking_result == chunk_messages(messages, ChunkTokensArg, OverlapTurnsArg)
    IN  IF do_chunk
        THEN [wk EXCEPT !.pc = "issue", !.transcript = transcript,
                        !.chunks = chunking_result.chunks,
                        !.kind = IF chunking_result.chunks = <<>> THEN "reduce" ELSE "map",
                        !.index = 1]
        ELSE [wk EXCEPT !.pc = "issue", !.transcript = transcript, !.kind = "single"]

\* Lines 153-168 and the call of chunk_messages: open() raises, or the file is
\* read and the strategy chosen.
WorkerRead(w) ==
    /\ worker[w].pc = "read"
    /\ \/ LET e == Exc("FileNotFoundError",
                       "No such file: " \o worker[w].item.session_file) IN
          /\ worker' = [worker EXCEPT ![w] = Raise(@, e)]
          /\ history' = [history EXCEPT ![worker[w].job_id].raised = e]
       \/ /\ worker' = [worker EXCEPT ![w] =
                AfterRead(@, FileContent(worker[w].item.session_file))]
          /\ history' = [history EXCEPT ![worker[w].job_id].n_chunks =
                Len(worker'[w].chunks)]
    /\ UNCHANGED <<server, chunker, clock, client, gen, max_workers, jobs, results, work_queue, running_jobs,
                   future, submitter, blocking>>

\* A slip: the worker asks for the model in force when it runs.
JobModel_Current(wk) ==
    IF server.runtime_config.model # "" THEN server.runtime_config.model
    ELSE DEFAULT_MODEL

\* The model argument _run_analysis was started with.
JobModel(wk) == wk.model

\* The generate call the worker is about to make.
NextCall(wk) ==
    CASE wk.kind = "single" ->
            CallEntry("single", 0, 0, wk.transcript, "inflight")
      [] wk.kind = "map" ->
            CallEntry("map", wk.chunks[wk.index].chunk_index + 1,
                      wk.chunks[wk.index].total_chunks,
                      format_transcript(wk.chunks[wk.index].messages), "inflight")
      [] wk.kind = "reduce" ->
            CallEntry("reduce", 0, Len(wk.chunk_results),
                      Join("\n\n", wk.chunk_results), "inflight")

\* The prompt is formatted (str.format raises KeyError on a template with a
\* stray placeholder) and generate_sync is called.
Issue(w) ==
    /\ worker[w].pc = "issue"
    /\ \/ /\ worker' = [worker EXCEPT ![w].pc = "calling"]
          /\ history' = [history EXCEPT ![worker[w].job_id].calls =
                                 Append(@, NextCall(worker[w])),
                             ![worker[w].job_id].models =
                                 Append(@, JobModel(worker[w]))]
       \/ LET e == Exc("KeyError", "'stray'") IN
          /\ worker' = [worker EXCEPT ![w] = Raise(@, e)]
          /\ history' = [history EXCEPT ![worker[w].job_id].raised = e]
    /\ UNCHANGED <<server, chunker, clock, client, max_workers, jobs, results, work_queue, running_jobs,
                   future, submitter, blocking>>

WorkerIssue(w) == Issue(w) /\ UNCHANGED gen

\* A slip: the loop over the chunks stops one chunk early.
AfterMapReturned_StopEarly(wk, text) ==
    LET labelled == "=== Chunk " \o ToString(wk.chunks[wk.index].chunk_index + 1)
                    \o "/" \o ToString(wk.chunks[wk.index].total_chunks)
                    \o " ===\n\n" \o text
    IN  [wk EXCEPT !.chunk_results = Append(@, labelled),
                   !.index = @ + 1,
                   !.kind = IF wk.index + 1 >= Len(wk.chunks) THEN "reduce" ELSE "map",
                   !.pc = "issue"]

\* chunk_results.append(...), then the next chunk, or the reduce phase after
\* the last one.
AfterMapReturned(wk, text) ==
    LET labelled == "=== Chunk " \o ToString(wk.chunks[wk.index].chunk_index + 1)
                    \o "/" \o ToString(wk.chunks[wk.index].total_chunks)
                    \o " ===\n\n" \o text
    IN  [wk EXCEPT !.chunk_results = Append(@, labelled),
                   !.index = @ + 1,
                   !.kind = IF wk.index + 1 > Len(wk.chunks) THEN "reduce" ELSE "map",
                   !.pc = "issue"]

EndLast(calls, state) == [calls EXCEPT ![Len(calls)].state = state]

\* A slip: the job's result is the concatenated chunk outputs, not the
\* output of the last call.
AfterLastReturned_ChunkOutputs(wk, text) ==
    [wk EXCEPT !.result_text = IF wk.chunk_results = <<>> THEN text
                               ELSE Join("\n\n", wk.chunk_results),
               !.pc = "complete"]

\* result_text = response.response (single pass), or the return value of
\* _run_chunked: synthesis_response.response.
AfterLastReturned(wk, text) == [wk EXCEPT !.result_text = text, !.pc = "complete"]

\* generate_sync has ended with res; observed is what is recorded of the
\* call's attempts (nothing where the call is not run attempt by attempt).
CallEnd(w, res, observed) ==
    /\ worker[w].pc = "calling"
    /\ IF res.pc = "returned"
       THEN /\ worker' = [worker EXCEPT ![w] =
                   IF @.kind = "map" THEN AfterMapReturned(@, res.response)
                   ELSE AfterLastReturned(@, res.response)]
            /\ history' = [history EXCEPT ![worker[w].job_id].calls =
                               EndLast(@, "returned"),
                           ![worker[w].job_id].outcomes = @ \o observed]
       ELSE /\ worker' = [worker EXCEPT ![w] = Raise(@, res.error)]
            /\ history' = [history EXCEPT ![worker[w].job_id].calls =
                               EndLast(@, "raised"),
                           ![worker[w].job_id].raised = res.error,
                           ![worker[w].job_id].outcomes = @ \o observed]
    /\ UNCHANGED <<server, chunker, clock, client, max_workers, jobs, results, work_queue, running_jobs,
                   future, submitter, blocking>>

\* generate_sync returns or raises.
WorkerCallEnd(w) ==
    /\ \E res \in SyncCallResults : CallEnd(w, res, <<>>)
    /\ UNCHANGED gen

\* self.storage.complete_job(...)
WorkerComplete(w) ==
    /\ worker[w].pc = "complete"
    /\ LET done == complete_job(jobs, results, worker[w].job_id,
                                worker[w].result_text, JobModel(worker[w])) IN
        /\ jobs' = done.jobs
        /\ results' = done.results
        /\ IF done.raised = NoError
           THEN /\ worker' = [worker EXCEPT ![w].pc = "return"]
                /\ UNCHANGED history
           ELSE /\ worker' = [worker EXCEPT ![w] = Raise(@, done.raised)]
                /\ history' = [history EXCEPT ![worker[w].job_id].raised = done.raised]
    /\ UNCHANGED <<server, chunker, clock, client, gen, max_workers, work_queue, running_jobs, future, submitter,
                   blocking>>

\* A slip: a failed job is put back on the queue to be retried.
WorkerFail_Requeue(w) ==
    /\ worker[w].pc = "fail"
    /\ jobs' = fail_job(jobs, worker[w].job_id, worker[w].error.msg)
    /\ work_queue' = Append(work_queue, [job_id |-> worker[w].job_id,
                                          item |-> worker[w].item,
                                          model |-> worker[w].model])
    /\ worker' = [worker EXCEPT ![w].pc = "return", ![w].error = NoError]
    /\ UNCHANGED <<server, chunker, clock, client, gen, max_workers, results, running_jobs, future,
                   submitter, blocking, history>>

\* except Exception as e: self.storage.fail_job(job_id, str(e))
WorkerFail(w) ==
    /\ worker[w].pc = "fail"
    /\ jobs' = fail_job(jobs, worker[w].job_id, worker[w].error.msg)
    /\ worker' = [worker EXCEPT ![w].pc = "return", ![w].error = NoError]
    /\ UNCHANGED <<server, chunker, clock, client, gen, max_workers, results, work_queue, running_jobs, future,
                   submitter, blocking, history>>

\* A slip: the done-callback leaves the job in _running_jobs.
WorkerReturn_KeepsHandle(w) ==
    /\ worker[w].pc = "return"
    /\ future' = [future EXCEPT ![worker[w].job_id].done = TRUE,
                                ![worker[w].job_id].exception = worker[w].error]
    /\ worker' = [worker EXCEPT ![w] = IdleWorker]
    /\ UNCHANGED <<server, chunker, clock, client, gen, max_workers, jobs, results, work_queue, submitter, blocking,
                   history, running_jobs>>

\* _run_analysis has ended: the future is set and its done-callback, if
\* already added, pops the job from _running_jobs; the thread is free again.
WorkerReturn(w) ==
    /\ worker[w].pc = "return"
    /\ future' = [future EXCEPT ![worker[w].job_id].done = TRUE,
                                ![worker[w].job_id].exception = worker[w].error]
    /\ running_jobs' = IF future[worker[w].job_id].callback
                       THEN running_jobs \ {worker[w].job_id} ELSE running_jobs
    /\ worker' = [worker EXCEPT ![w] = IdleWorker]
    /\ UNCHANGED <<server, chunker, clock, client, gen, max_workers, jobs, results, work_queue, submitter, blocking,
                   history>>

\* server.call_tool, blocking branch: the session file is missing and the
\* reply says so, or the transcript is extracted and OllamaClient.generate
\* awaited, outside the pool.
BlockingBegin(b) ==
    /\ blocking[b].pc = "idle"
    /\ \/ blocking' = [blocking EXCEPT ![b].pc = "calling"]
       \/ blocking' = [blocking EXCEPT ![b] =
                [pc |-> "done", reply |-> "Error: File not found: missing"]]
    /\ UNCHANGED <<server, chunker, clock, client, gen, max_workers, jobs, results, work_queue, worker,
                   running_jobs, future, submitter, history>>

\* A slip: a blocking request whose call raised records a FAILED job and
\* answers with the job instead of the error.
BlockingEnd_RecordsJob(b) ==
    /\ blocking[b].pc = "calling"
    /\ \E res \in AsyncCallResults :
        IF res.pc = "returned"
        THEN /\ blocking' = [blocking EXCEPT ![b] =
                    [pc |-> "done", reply |-> res.response]]
             /\ UNCHANGED <<jobs, future, history>>
        ELSE /\ Len(jobs) < MaxJobs
             /\ jobs' = fail_job(create_job(jobs, "stenographer", "short"),
                                 Len(jobs) + 1, res.error.msg)
             /\ future' = Append(future, NewFuture)
             /\ history' = Append(history, NewHistory)
             /\ blocking' = [blocking EXCEPT ![b] =
                    [pc |-> "done", reply |-> "Job submitted"]]
    /\ UNCHANGED <<server, chunker, clock, client, gen, max_workers, results, work_queue, worker,
                   running_jobs, submitter>>

\* The awaited call returns (the reply is the response) or raises (the reply
\* is "Error: <e>").
BlockingEnd(b) ==
    /\ blocking[b].pc = "calling"
    /\ \E res \in AsyncCallResults :
        blocking' = [blocking EXCEPT ![b] =
            [ pc |-> "done",
              reply |-> IF res.pc = "returned" THEN res.response
                        ELSE "Error: " \o res.error.msg ]]
    /\ UNCHANGED <<server, chunker, clock, client, gen, max_workers, jobs, results, work_queue, worker,
                   running_jobs, future, submitter, history>>

WorkerStep(w) ==
    \/ WorkerTake(w)
    \/ WorkerStart(w)
    \/ WorkerRead(w)
    \/ WorkerIssue(w)
    \/ WorkerCallEnd(w)
    \/ WorkerComplete(w)
    \/ WorkerFail(w)
    \/ WorkerReturn(w)

Next ==
    \/ SubmitCreate
    \/ SubmitRegister
    \/ SubmitAddCallback
    \/ \E w \in 1..(MaxPool + 1) : WorkerStep(w)
    \/ \E b \in 1..MaxBlocking : BlockingBegin(b) \/ BlockingEnd(b)

Spec == Init /\ [][Next]_vars

\* The job manager alone, with no blocking-mode request: every pool thread
\* keeps running, and every generate call returns or raises.
InitJobs ==
    /\ Init
    /\ \A b \in 1..MaxBlocking : blocking[b].pc = "idle"

NextJobs ==
    \/ SubmitCreate
    \/ SubmitRegister
    \/ SubmitAddCallback
    \/ \E w \in 1..(MaxPool + 1) : WorkerStep(w)

FairSpec ==
    InitJobs /\ [][NextJobs]_vars /\ \A w \in 1..MaxPool : WF_vars(WorkerStep(w))

\* The same, with the thread inside submit_analysis running on as well: after
\* executor.submit it goes straight through the two statements that follow.
FairSubmitSpec ==
    /\ InitJobs /\ [][NextJobs]_vars
    /\ \A w \in 1..MaxPool : WF_vars(WorkerStep(w))
    /\ WF_vars(SubmitRegister \/ SubmitAddCallback)

----
(***************************************************************************)
(* The job state machine, the pool and the order of a job's calls.         *)
(***************************************************************************)
Exists(j) == j \in DOMAIN jobs /\ jobs[j] # NoRow
Status(j) == jobs[j].status
Terminal(j) == Status(j) \in {"COMPLETED", "FAILED"}

\* The generate calls in flight: those of pool threads inside generate_sync
\* and those of blocking requests awaiting OllamaClient.generate.
PoolCallsInFlight == { w \in DOMAIN worker : worker[w].pc = "calling" }
BlockingCallsInFlight == { b \in DOMAIN blocking : blocking[b].pc = "calling" }

\* C1: in every step, a job whose stored status changes goes from PENDING to
\* RUNNING, from RUNNING to COMPLETED or from RUNNING to FAILED; so COMPLETED
\* and FAILED never change again and PENDING never becomes terminal directly.
C1_StatusTransitions ==
    [][ \A j \in DOMAIN jobs :
            (/\ jobs[j] # NoRow /\ j \in DOMAIN jobs' /\ jobs'[j] # NoRow
             /\ jobs'[j].status # jobs[j].status)
                => <<jobs[j].status, jobs'[j].status>> \in
                        { <<"PENDING", "RUNNING">>, <<"RUNNING", "COMPLETED">>,
                          <<"RUNNING", "FAILED">> } ]_vars

C1_Witness ==
    /\ Len(jobs) = 2
    /\ { Status(1), Status(2) } = { "COMPLETED", "FAILED" }
    /\ \A j \in 1..2 : future[j].done

\* C2: in every reachable state, a job's result_id is non-null exactly when
\* its status is COMPLETED.
C2_ResultIdIffCompleted ==
    \A j \in DOMAIN jobs :
        jobs[j] # NoRow => ((jobs[j].result_id # NULL) <=> (jobs[j].status = "COMPLETED"))

C2_Witness ==
    \E j \in DOMAIN jobs : \E r \in DOMAIN results :
        /\ jobs[j].status = "COMPLETED"
        /\ jobs[j].result_id = <<r>>
        /\ results[r].result_text = "summary"
        /\ \E k \in DOMAIN jobs : jobs[k].status = "RUNNING" /\ jobs[k].result_id = NULL

\* C3: under fair scheduling of the pool threads, with every generate call
\* returning or raising, a job whose status is RUNNING eventually has status
\* COMPLETED or FAILED.
C3_RunningReachesTerminal ==
    \A j \in 1..MaxJobs :
        (Exists(j) /\ Status(j) = "RUNNING") ~> (Exists(j) /\ Terminal(j))

C3_Witness ==
    \E j \in DOMAIN jobs :
        /\ Status(j) = "FAILED"
        /\ history[j].raised.cls = "KeyError"
        /\ future[j].done
        /\ future[j].exception = NoError

\* C21: a job enters the registry only by the registering statement of its
\* own submit_analysis, leaves it only once its future is done, and, however
\* the submitting thread and the pool thread interleave, a job whose future
\* is done is from some point on never in the registry again.
C21_RegistryDrains ==
    /\ [][ \A j \in 1..MaxJobs :
              /\ (j \notin running_jobs /\ j \in running_jobs') =>
                    (submitter.pc = "register" /\ submitter.job_id = j)
              /\ (j \in running_jobs /\ j \notin running_jobs') =>
                    (j \in DOMAIN future' /\ future'[j].done) ]_vars
    /\ \A j \in 1..MaxJobs :
          [] ((j \in DOMAIN future /\ future[j].done) => <>[](j \notin running_jobs))

C21_Witness ==
    /\ submitter = [pc |-> "add_done_callback", job_id |-> 1]
    /\ future[1].done
    /\ 1 \in running_jobs
    /\ \A w \in DOMAIN worker : worker[w].pc = "idle"

\* The places where job j is waiting for, or inside, _run_analysis.
Queued(j) == { q \in DOMAIN work_queue : work_queue[q].job_id = j }
Executing(j) == { w \in DOMAIN worker : worker[w].pc # "idle" /\ worker[w].job_id = j }

\* C15: the ids of the jobs are pairwise distinct; a job is in the queue or
\* on a pool thread at most once at a time and never again once its
\* _run_analysis has ended; a FAILED job is not queued, no thread is inside its
\* analysis (a thread may only be returning from it), and no step adds a
\* generate call to it or changes its status.
C15_NewIdRunOnce ==
    [][ /\ \A i, k \in DOMAIN jobs' :
              (i # k /\ jobs'[i] # NoRow /\ jobs'[k] # NoRow) => jobs'[i].id # jobs'[k].id
        /\ \A j \in DOMAIN jobs :
              /\ j \in DOMAIN jobs'
              /\ (Cardinality(Queued(j)) + Cardinality(Executing(j)))' <= 1
              /\ future[j].done => (Queued(j) = {} /\ Executing(j) = {})'
              /\ (jobs[j] # NoRow /\ jobs[j].status = "FAILED") =>
                    /\ jobs'[j] = jobs[j]
                    /\ history'[j].calls = history[j].calls
                    /\ Queued(j) = {}
                    /\ \A w \in Executing(j) : worker[w].pc = "return"
                    /\ \A w \in Executing(j)' : worker'[w].pc = "return" ]_vars

C15_Witness ==
    /\ Len(jobs) = 2
    /\ jobs[1].id # jobs[2].id
    /\ Status(1) = "FAILED" /\ future[1].done
    /\ Len(history[1].calls) = 1
    /\ Status(2) = "RUNNING" /\ Len(history[2].calls) = 2

\* C16: whatever the pool threads are doing, every step of submit_analysis
\* can be taken (it waits for no thread and no generate call), the job it
\* creates is PENDING, and a job that is still in the queue, or taken by a
\* thread that has not yet marked it, exists in the store with status PENDING.
C16_SubmitDoesNotWait ==
    /\ (submitter.pc = "idle" /\ Len(jobs) < MaxJobs) =>
            /\ ENABLED SubmitCreate
            /\ \A a \in SubmitArgs :
                  create_job(jobs, a.job_type, a.session_file)[Len(jobs) + 1].status
                      = "PENDING"
    /\ submitter.pc = "register" => ENABLED SubmitRegister
    /\ submitter.pc = "add_done_callback" => ENABLED SubmitAddCallback
    /\ \A q \in DOMAIN work_queue :
            Exists(work_queue[q].job_id) /\ Status(work_queue[q].job_id) = "PENDING"
    /\ \A w \in DOMAIN worker :
            worker[w].pc = "start" =>
                Exists(worker[w].job_id) /\ Status(worker[w].job_id) = "PENDING"

C16_Witness ==
    /\ \A w \in PoolThreads : worker[w].pc = "calling"
    /\ submitter.pc = "idle"
    /\ Len(jobs) = 2
    /\ Queued(2) # {}
    /\ Status(2) = "PENDING"
    /\ 2 \in running_jobs

\* C4: the number of jobs with status RUNNING never exceeds max_workers; with
\* a pool of one thread, a job submitted after another has left PENDING only
\* when the earlier one is COMPLETED or FAILED.
C4_RunningBoundedByPool ==
    /\ Cardinality({ j \in DOMAIN jobs : Exists(j) /\ Status(j) = "RUNNING" })
            <= max_workers
    /\ max_workers = 1 =>
            \A a, b \in DOMAIN jobs :
                (a < b /\ Status(b) # "PENDING") => Terminal(a)

C4_Witness ==
    /\ max_workers = 1
    /\ Len(jobs) = 2
    /\ Terminal(1)
    /\ Status(2) = "RUNNING"

\* C5 as stated: the generate calls in flight, those of blocking requests
\* included, never outnumber the pool threads.
C5_AllCallsBoundedByPool ==
    Cardinality(PoolCallsInFlight) + Cardinality(BlockingCallsInFlight) <= max_workers

\* C5, amended: the generate calls in flight that jobs have issued never
\* outnumber the pool threads, and a job has at most one call in flight; the
\* calls of blocking requests are outside the pool and come on top of them.
C5_JobCallsBoundedByPool ==
    /\ Cardinality(PoolCallsInFlight) <= max_workers
    /\ \A j \in DOMAIN history :
            Cardinality({ k \in DOMAIN history[j].calls :
                            history[j].calls[k].state = "inflight" }) <= 1
    /\ Cardinality(PoolCallsInFlight) =
            Cardinality({ j \in DOMAIN history :
                            \E k \in DOMAIN history[j].calls :
                                history[j].calls[k].state = "inflight" })

C5_Witness ==
    /\ max_workers = 2
    /\ Cardinality(PoolCallsInFlight) = 2
    /\ Cardinality(BlockingCallsInFlight) = 1

\* C6: in a job's sequence of generate calls, a call is begun only when the
\* one before it has returned; the k-th call of a map-reduce job is the map
\* call of chunk k, and the reduce call comes after the map calls of all the
\* chunks, every one of them returned.
C6_MapCallsInOrderThenReduce ==
    \A j \in DOMAIN history :
        LET cs == history[j].calls
            n == history[j].n_chunks
        IN  \A k \in DOMAIN cs :
                /\ k < Len(cs) => cs[k].state = "returned"
                /\ cs[k].kind = "map" =>
                        /\ cs[k].chunk_index = k
                        /\ k <= n
                        /\ cs[k].total_chunks = n
                /\ cs[k].kind = "reduce" =>
                        /\ k = n + 1
                        /\ \A i \in 1..n : cs[i].kind = "map" /\ cs[i].state = "returned"

C6_Witness ==
    \E j \in DOMAIN history :
        /\ history[j].n_chunks = 3
        /\ Len(history[j].calls) = 4
        /\ history[j].calls[4].kind = "reduce"
        /\ history[j].calls[4].state = "returned"
        /\ Status(j) = "COMPLETED"

\* C7: a job in whose execution the read, the prompt formatting, a map call
\* or the reduce call raised is never COMPLETED and has no result; when its
\* worker function has ended it is FAILED with the message of the exception as
\* error_message, and the function ended without an exception.  Every result
\* row belongs to a COMPLETED job.
C7_RaiseMakesJobFailed ==
    /\ \A j \in DOMAIN history :
            history[j].raised # NoError =>
                /\ Status(j) # "COMPLETED"
                /\ jobs[j].result_id = NULL
                /\ future[j].done =>
                        /\ Status(j) = "FAILED"
                        /\ jobs[j].error_message = <<history[j].raised.msg>>
                        /\ future[j].exception = NoError
    /\ \A r \in DOMAIN results :
            \E j \in DOMAIN jobs : jobs[j].result_id = <<r>> /\ Status(j) = "COMPLETED"

C7_Witness ==
    \E j \in DOMAIN history :
        /\ future[j].done
        /\ Len(history[j].calls) = 2
        /\ history[j].calls[1].kind = "map" /\ history[j].calls[1].state = "returned"
        /\ history[j].calls[2].kind = "map" /\ history[j].calls[2].state = "raised"
        /\ history[j].raised.cls = "OllamaTimeoutError"
        /\ Status(j) = "FAILED"
        /\ results = <<>>

----
(***************************************************************************)
(* SpecGen: one generate call against every backend behaviour.             *)
(***************************************************************************)
InitJobsIdle ==
    /\ max_workers = 1
    /\ jobs = <<>>
    /\ results = <<>>
    /\ work_queue = <<>>
    /\ worker = <<>>
    /\ running_jobs = {}
    /\ future = <<>>
    /\ submitter = <<>>
    /\ blocking = <<>>
    /\ history = <<>>
    /\ clock = 0
    /\ client = IdleClient
    /\ chunker = IdleChunker
    /\ server = IdleServer

InitGen ==
    /\ \E impl \in {"sync", "async"}, mr \in 0..MaxRetriesArg :
            gen = NewCall(impl, mr, DEFAULT_TIMEOUT)
    /\ InitJobsIdle

GenIterate ==
    /\ gen.pc = "loop"
    /\ \E r \in BackendResponses : gen' = Iteration(gen, r)
    /\ UNCHANGED jobVars

NextGen == GenIterate

SpecGen == InitGen /\ [][NextGen]_vars

\* Readings of the log.
Posts(g) == SelectSeq(g.log, LAMBDA e : e[1] = "post")
Sleeps(g) == SelectSeq(g.log, LAMBDA e : e[1] = "sleep")
Attempts(g) == Len(Posts(g))

RECURSIVE SumDelays(_)
SumDelays(s) == IF s = <<>> THEN 0 ELSE Head(s)[2] + SumDelays(Tail(s))

Answers(g) == [i \in 1..Len(Posts(g)) |-> Posts(g)[i][3]]
Ended(g) == g.pc \in {"returned", "raised"}
IsPost(e) == e[1] = "post"
IsSleep(e) == e[1] = "sleep"

\* C8: a generate call makes at most max_retries + 1 attempts (at most 4 with
\* the default max_retries), and a call that has ended with every attempt
\* failing on a retryable condition has made exactly max_retries + 1 attempts.
C8_AttemptsBounded ==
    /\ Attempts(gen) <= gen.max_retries + 1
    /\ gen.max_retries = DEFAULT_MAX_RETRIES => Attempts(gen) <= 4
    /\ (Ended(gen) /\ \A i \in 1..Attempts(gen) : Retryable(Answers(gen)[i]))
          => Attempts(gen) = gen.max_retries + 1

C8_Witness ==
    /\ gen.max_retries = DEFAULT_MAX_RETRIES
    /\ gen.pc = "raised"
    /\ Attempts(gen) = 4
    /\ \A i \in 1..Attempts(gen) : Retryable(Answers(gen)[i])
    /\ \E i \in 1..4 : Answers(gen)[i].kind = "timeout"
    /\ \E i \in 1..4 : Answers(gen)[i].kind = "connect"
    /\ \E i \in 1..4 : Answers(gen)[i].kind = "status"

\* C9: an attempt answered by an HTTP error status outside {502, 503, 504} is
\* the last event of the call, whatever its index: the call has raised an
\* OllamaError whose message carries that status and body, no attempt and no
\* sleep follows it; answered so on the first attempt, the call made one attempt.
C9_NonRetryableFailsAtOnce ==
    \A i \in 1..Len(gen.log) :
        LET e == gen.log[i] IN
        (IsPost(e) /\ e[3].kind = "status" /\ e[3].code \notin {502, 503, 504}) =>
            /\ i = Len(gen.log)
            /\ gen.pc = "raised"
            /\ gen.error = Exc("OllamaError",
                    "Ollama API error: " \o ToString(e[3].code) \o " - " \o e[3].text)
            /\ Attempts(gen) = e[2] + 1
            /\ Len(Sleeps(gen)) = e[2]

C9_Witness ==
    /\ gen.pc = "raised"
    /\ Attempts(gen) = 3
    /\ Answers(gen)[3].kind = "status" /\ Answers(gen)[3].code = 500
    /\ gen.error.msg = "Ollama API error: 500 - body500"

\* C10: the k-th attempt (k from 1), when it fails on a retryable condition and
\* is not the final one, is followed by a sleep of base_delay * k and then by
\* attempt k+1; every attempt after the first is preceded by that sleep; no
\* sleep follows the final attempt or a successful one; on the answers 503, 503,
\* 200 the call returns on the 3rd attempt having slept base_delay*1 + base_delay*2.
C10_LinearBackoff ==
    /\ \A i \in 1..Len(gen.log) :
          LET e == gen.log[i] IN
          /\ IsSleep(e) =>
                /\ i > 1 /\ IsPost(gen.log[i-1]) /\ Retryable(gen.log[i-1][3])
                /\ gen.log[i-1][2] < gen.max_retries
                /\ e[2] = DEFAULT_RETRY_DELAY * (gen.log[i-1][2] + 1)
                /\ i < Len(gen.log) =>
                        IsPost(gen.log[i+1]) /\ gen.log[i+1][2] = gen.log[i-1][2] + 1
          /\ IsPost(e) =>
                /\ e[2] = 0 => i = 1
                /\ e[2] > 0 => i > 1 /\ gen.log[i-1] = <<"sleep", DEFAULT_RETRY_DELAY * e[2]>>
                /\ (Retryable(e[3]) /\ e[2] < gen.max_retries) =>
                        i < Len(gen.log) /\ IsSleep(gen.log[i+1])
                /\ (e[2] = gen.max_retries \/ e[3].kind = "ok") => i = Len(gen.log)
    /\ (/\ Ended(gen) /\ Attempts(gen) = 3
        /\ Answers(gen)[1].code = 503 /\ Answers(gen)[2].code = 503
        /\ Answers(gen)[3] = Answer("ok", 200, "summary", TRUE))
          => /\ gen.pc = "returned"
             /\ SumDelays(Sleeps(gen)) = DEFAULT_RETRY_DELAY * 1 + DEFAULT_RETRY_DELAY * 2

C10_Witness ==
    /\ gen.pc = "returned"
    /\ Attempts(gen) = 3
    /\ Answers(gen)[1].code = 503 /\ Answers(gen)[2].code = 503
    /\ Sleeps(gen) = << <<"sleep", 2>>, <<"sleep", 4>> >>

\* C11: a call whose max_retries + 1 attempts all failed on a retryable
\* condition has raised the error of its last attempt: OllamaTimeoutError
\* exactly when the last attempt timed out, otherwise the OllamaError made from
\* the last attempt's status code or connection failure.
C11_LastErrorSurfaced ==
    (/\ Ended(gen) /\ Attempts(gen) = gen.max_retries + 1
     /\ \A i \in 1..Attempts(gen) : Retryable(Answers(gen)[i]))
        => LET last == Answers(gen)[Attempts(gen)] IN
           /\ gen.pc = "raised"
           /\ (gen.error.cls = "OllamaTimeoutError") <=> (last.kind = "timeout")
           /\ last.kind = "timeout" =>
                  gen.error = Exc("OllamaTimeoutError",
                      "Ollama request timed out after " \o ToString(gen.timeout) \o "s")
           /\ last.kind = "status" =>
                  gen.error = Exc("OllamaError",
                      "Ollama API error: " \o ToString(last.code))
           /\ last.kind = "connect" =>
                  gen.error = Exc("OllamaError",
                      "Failed to connect to Ollama: " \o last.text)

C11_Witness ==
    /\ gen.pc = "raised"
    /\ gen.max_retries = 2
    /\ Attempts(gen) = 3
    /\ Answers(gen)[1].kind = "timeout"
    /\ Answers(gen)[2].kind = "connect"
    /\ Answers(gen)[3].kind = "status" /\ Answers(gen)[3].code = 504
    /\ gen.error = Exc("OllamaError", "Ollama API error: 504")

----
(***************************************************************************)
(* SpecCalls: one job on a pool of one thread, its generate_sync calls run *)
(* attempt by attempt against the backend.                                 *)
(***************************************************************************)
SessionFiles == {"short", "edge", "over", "replies", "long"}

SubmitArgsWide ==
    { SubmitArg("insight_extractor", f, cp, sp) :
        f \in SessionFiles, cp \in BOOLEAN, sp \in BOOLEAN }

\* The answers the backend gives to the attempts of the job's calls.
CallAnswers ==
    { Answer("ok", 200, "summary", TRUE), Answer("ok", 200, "notes", TRUE),
      Answer("ok", 200, "", FALSE), Answer("timeout", 0, "", FALSE),
      Answer("connect", 0, "refused", FALSE),
      Answer("status", 503, "body503", FALSE), Answer("status", 404, "body404", FALSE) }

\* The attempts of the call that failed on a retryable condition.
Failures(g) == Len(SelectSeq(Posts(g), LAMBDA e : Retryable(e[3])))

\* What is recorded of an ended call: its retryable failures, the answer to
\* its last attempt and the text it returned.
Observed(g) ==
    [ failures |-> Failures(g), answer |-> Posts(g)[Len(Posts(g))][3],
      response |-> g.response ]

InitCalls == Init /\ max_workers = 1

SubmitOne == jobs = <<>> /\ \E a \in SubmitArgsWide : SubmitJob(a)

\* The prompt is formatted and generate_sync entered with the defaults
\* max_retries=DEFAULT_MAX_RETRIES, timeout=300.0.
CallBegin(w) ==
    /\ gen.pc = "idle"
    /\ Issue(w)
    /\ gen' = IF worker'[w].pc = "calling"
              THEN NewCall("sync", DEFAULT_MAX_RETRIES, DEFAULT_TIMEOUT) ELSE gen

\* One iteration of the loop of generate_sync inside the worker's call.
CallAttempt(w) ==
    /\ worker[w].pc = "calling"
    /\ gen.pc = "loop"
    /\ \E r \in CallAnswers : gen' = generate_sync_iteration(gen, r)
    /\ UNCHANGED jobVars

\* generate_sync returns to, or raises into, _run_analysis / _run_chunked.
CallFinish(w) ==
    /\ Ended(gen)
    /\ CallEnd(w, CallOutcome(gen), <<Observed(gen)>>)
    /\ gen' = IdleCall

NextCalls ==
    \/ SubmitOne
    \/ SubmitRegister
    \/ SubmitAddCallback
    \/ WorkerTake(1)
    \/ WorkerStart(1)
    \/ WorkerRead(1)
    \/ CallBegin(1)
    \/ CallAttempt(1)
    \/ CallFinish(1)
    \/ WorkerComplete(1)
    \/ WorkerFail(1)
    \/ WorkerReturn(1)

SpecCalls == InitCalls /\ [][NextCalls]_vars

\* The exception of the job, if any, was raised outside its generate calls
\* (reading the session file, formatting a prompt).
RaisedOutsideCalls(j) ==
    /\ history[j].raised # NoError
    /\ \/ history[j].calls = <<>>
       \/ history[j].calls[Len(history[j].calls)].state # "raised"

Succeeded(o) == o.answer.kind = "ok" /\ o.answer.has_response

C13_StrategyChoice ==
    \A w \in DOMAIN worker :
        LET wk == worker[w] IN
        wk.pc \in {"issue", "calling", "complete"} =>
            LET transcript == format_transcript(FileContent(wk.item.session_file))
                map_reduce == /\ estimate_tokens(transcript) > (8 * ChunkTokensArg) \div 10
                              /\ wk.item.chunk_prompt
                              /\ wk.item.synthesis_prompt
                cs == history[wk.job_id].calls
            IN  /\ (wk.kind \in {"map", "reduce"}) <=> map_reduce
                /\ map_reduce => \A k \in DOMAIN cs : cs[k].kind \in {"map", "reduce"}
                /\ ~map_reduce =>
                      /\ wk.kind = "single"
                      /\ Len(cs) = IF wk.pc = "issue" THEN 0 ELSE 1
                      /\ \A k \in DOMAIN cs :
                            cs[k].kind = "single" /\ cs[k].transcript = transcript
                      /\ wk.pc = "complete" => cs[1].state = "returned"

C13_Witness ==
    /\ worker[1].pc = "complete"
    /\ worker[1].item = SubmitArg("insight_extractor", "edge", TRUE, TRUE)
    /\ estimate_tokens(worker[1].transcript) = (8 * ChunkTokensArg) \div 10
    /\ worker[1].kind = "single"
    /\ Len(history[1].calls) = 1

\* The labelled output of chunk k of n, as appended to chunk_results.
Labelled(k, n, text) ==
    "=== Chunk " \o ToString(k) \o "/" \o ToString(n) \o " ===\n\n" \o text

\* C14: a COMPLETED map-reduce job whose transcript chunk_messages split into
\* N chunks made N + 1 calls: the k-th is the map call of chunk k, with
\* chunk_index + 1 = k and total_chunks = N, over that chunk's transcript; the
\* last is the reduce call, with total_chunks = N, over the labelled outputs of
\* the map calls; and the stored result text is what the reduce call returned.
C14_MapReduceCalls ==
    \A j \in DOMAIN history :
        LET cs == history[j].calls
            os == history[j].outcomes
        IN
        (/\ Exists(j) /\ Status(j) = "COMPLETED"
         /\ cs # <<>> /\ cs[Len(cs)].kind = "reduce")
        => LET chunks == chunk_messages(FileContent(jobs[j].session_id),
                                        ChunkTokensArg, OverlapTurnsArg).chunks
               N == Len(chunks)
           IN  /\ Len(cs) = N + 1
               /\ \A k \in 1..N :
                     /\ cs[k].kind = "map"
                     /\ cs[k].chunk_index = k
                     /\ cs[k].total_chunks = N
                     /\ cs[k].transcript = format_transcript(chunks[k].messages)
               /\ cs[N + 1].total_chunks = N
               /\ cs[N + 1].transcript =
                     Join("\n\n", [k \in 1..N |-> Labelled(k, N, os[k].response)])
               /\ jobs[j].result_id # NULL
               /\ results[jobs[j].result_id[1]].result_text = os[N + 1].response

C14_Witness ==
    \E j \in DOMAIN history :
        /\ Status(j) = "COMPLETED"
        /\ history[j].n_chunks = 3
        /\ Len(history[j].outcomes) = 4
        /\ \A k \in 1..3 : history[j].outcomes[k].response = "summary"
        /\ history[j].outcomes[4].response = "notes"
        /\ results[jobs[j].result_id[1]].result_text = "notes"

-----------------------------------------------------------------------------
\* Blocking-mode requests

\* The replies a blocking request gives when its awaited generate call returned.
ResponseReplies == { res.response : res \in { r \in AsyncCallResults : r.pc = "returned" } }

\* The replies it gives when the call raised: "Error: {e}".
ErrorReplies ==
    { "Error: " \o res.error.msg : res \in { r \in AsyncCallResults : r.pc = "raised" } }

-----------------------------------------------------------------------------
\* SpecStore: the store on its own.  Jobs are created and moved through their
\* states in the order JobManager calls the store, time passes, and a caller
\* outside the pool asks for results and runs retention sweeps.  Every call
\* of the store is one transaction, get_job_result is two of them.

MaxClock == 3           \* ticks that pass
MaxDays == 1            \* cleanup_old_results is called with days in 0..MaxDays
MaxSweeps == 2          \* calls of cleanup_old_results

InitStore == Init /\ max_workers = 1

storeOthers == <<gen, max_workers, work_queue, worker, running_jobs, future,
                 submitter, blocking, history, chunker, server>>

Tick ==
    /\ clock < MaxClock
    /\ clock' = clock + 1
    /\ UNCHANGED <<jobs, results, client, storeOthers>>

\* submit_analysis: storage.create_job
StoreCreate ==
    /\ Len(jobs) < MaxJobs
    /\ jobs' = create_job(jobs, "stenographer", "short")
    /\ UNCHANGED <<results, clock, client, storeOthers>>

\* _run_analysis: update_job_status(job_id, RUNNING)
StoreStart(j) ==
    /\ Exists(j) /\ Status(j) = "PENDING"
    /\ jobs' = update_job_status(jobs, j, "RUNNING")
    /\ UNCHANGED <<results, clock, client, storeOthers>>

\* _run_analysis: complete_job
StoreComplete(j) ==
    /\ Exists(j) /\ Status(j) = "RUNNING"
    /\ LET done == complete_job(jobs, results, j, "summary", "model") IN
           jobs' = done.jobs /\ results' = done.results
    /\ UNCHANGED <<clock, client, storeOthers>>

\* _run_analysis, except Exception: fail_job
StoreFail(j) ==
    /\ Exists(j) /\ Status(j) = "RUNNING"
    /\ jobs' = fail_job(jobs, j, "Ollama request timed out")
    /\ UNCHANGED <<results, clock, client, storeOthers>>

\* get_job_result, first half: job = get_job(job_id); None is returned when
\* there is no such job or it has no result id.
get_job_result_begin(c, js, job_id) ==
    LET job == get_job(js, job_id) IN
    IF job = NoRow \/ job.result_id = NULL
    THEN [c EXCEPT !.pc = "returned", !.job_id = job_id, !.result_id = 0, !.ret = NULL]
    ELSE [c EXCEPT !.pc = "get_result", !.job_id = job_id,
                   !.result_id = job.result_id[1], !.ret = NULL]

\* A slip: a result that is gone reads as an empty text.
get_job_result_end_EmptyText(c, rs) ==
    LET result == get_result(rs, c.result_id) IN
    [c EXCEPT !.pc = "returned",
              !.ret = IF result # NoRow THEN <<result.result_text>> ELSE <<"">>]

\* get_job_result, second half: result = get_result(job.result_id);
\* return result.result_text if result else None
get_job_result_end(c, rs) ==
    LET result == get_result(rs, c.result_id) IN
    [c EXCEPT !.pc = "returned",
              !.ret = IF result # NoRow THEN <<result.result_text>> ELSE NULL]

GetJobResultBegin ==
    /\ client.pc \in {"idle", "returned"}
    /\ \E job_id \in 1..(MaxJobs + 1) : client' = get_job_result_begin(client, jobs, job_id)
    /\ UNCHANGED <<jobs, results, clock, storeOthers>>

GetJobResultEnd ==
    /\ client.pc = "get_result"
    /\ client' = get_job_result_end(client, results)
    /\ UNCHANGED <<jobs, results, clock, storeOthers>>

\* storage.cleanup_old_results(days=...)
Sweep ==
    /\ client.sweeps < MaxSweeps
    /\ \E days \in 0..MaxDays :
        LET swept == cleanup_old_results(jobs, results, days) IN
        /\ jobs' = swept.jobs
        /\ results' = swept.results
        /\ client' = [client EXCEPT !.sweeps = @ + 1, !.cutoff = cutoff_iso(days),
                                     !.deleted = swept.deleted]
    /\ UNCHANGED <<clock, storeOthers>>

NextStore ==
    \/ Tick
    \/ StoreCreate
    \/ \E j \in 1..MaxJobs : StoreStart(j) \/ StoreComplete(j) \/ StoreFail(j)
    \/ GetJobResultBegin
    \/ GetJobResultEnd
    \/ Sweep

SpecStore == InitStore /\ [][NextStore]_vars

\* The ends of a step of the caller.
Sweeping == client'.sweeps = client.sweeps + 1
Asking == client.pc \in {"idle", "returned"} /\ client' # client /\ ~Sweeping
Fetching == client.pc = "get_result" /\ client'.pc = "returned"

\* C18: get_job_result returns None when there is no such job or the job is
\* PENDING, RUNNING or FAILED; for a COMPLETED job it goes on to read the
\* linked result, and returns its text when the result is there and None
\* when it is gone.  No outcome is an exception.
C18_NoResultIsNone ==
    [][ /\ Asking =>
            LET job == get_job(jobs, client'.job_id) IN
            IF job = NoRow \/ job.status \in {"PENDING", "RUNNING", "FAILED"}
            THEN client'.pc = "returned" /\ client'.ret = NULL
            ELSE /\ job.status = "COMPLETED"
                 /\ client'.pc = "get_result"
                 /\ client'.result_id = job.result_id[1]
        /\ Fetching =>
            IF get_result(results, client.result_id) = NoRow
            THEN client'.ret = NULL
            ELSE client'.ret = <<results[client.result_id].result_text>>
      ]_vars

C18_Witness ==
    /\ client.pc = "returned"
    /\ client.result_id = 1
    /\ client.ret = NULL
    /\ results[1] = NoRow
    /\ client.sweeps = 1

\* One time is earlier than another, both read back from their texts.
Earlier(a, b) == fromisoformat(a) < fromisoformat(b)

\* C19: a sweep with cutoff C deletes the results created earlier than C and
\* no other, deletes the jobs whose result id is set and names no remaining
\* result and no other, leaves every row it keeps as it was, and returns the
\* number of results it deleted.
C19_SweepDeletesExactly ==
    [][ Sweeping =>
          /\ DOMAIN results' = DOMAIN results
          /\ DOMAIN jobs' = DOMAIN jobs
          /\ \A r \in DOMAIN results :
                results'[r] = IF /\ results[r] # NoRow
                                 /\ Earlier(results[r].created_at, client'.cutoff)
                              THEN NoRow ELSE results[r]
          /\ \A j \in DOMAIN jobs :
                jobs'[j] = IF /\ jobs[j] # NoRow
                              /\ jobs[j].result_id # NULL
                              /\ get_result(results', jobs[j].result_id[1]) = NoRow
                           THEN NoRow ELSE jobs[j]
          /\ client'.deleted =
                Cardinality({ r \in DOMAIN results :
                                results[r] # NoRow /\ results'[r] = NoRow })
      ]_vars

C19_Witness ==
    /\ client.sweeps = 1
    /\ client.deleted = 1
    /\ Len(jobs) = 2
    /\ jobs[1] = NoRow /\ results[1] = NoRow
    /\ jobs[2] # NoRow /\ jobs[2].result_id = <<2>>
    /\ results[2] # NoRow /\ results[2].created_at = client.cutoff
    /\ Len(client.cutoff) = 2

-----------------------------------------------------------------------------
\* SpecChunk: the chunker on its own.  A caller holds a message sequence, a
\* token budget and an overlap, and calls group_into_turns, chunk_messages,
\* should_chunk and the size test of _run_analysis on them, in any order.

MaxMessages == 5        \* messages of a sequence
MaxOverlapTurns == 2    \* overlap_turns in 0..MaxOverlapTurns

Roles == {"user", "assistant"}
Contents == {"ok", "a longer message of forty characters ..!"}
TargetTokens == {4, 20, 30}

Messages == { Message(role, content, "") : role \in Roles, content \in Contents }
MessageSeqs == UNION { [1..n -> Messages] : n \in 0..MaxMessages }

Called(value) == [called |-> TRUE, value |-> value]

chunkOthers == <<gen, max_workers, jobs, results, work_queue, worker, running_jobs,
                 future, submitter, blocking, history, clock, client, server>>

InitChunk ==
    /\ gen = IdleCall
    /\ max_workers = 1
    /\ jobs = <<>>
    /\ results = <<>>
    /\ work_queue = <<>>
    /\ worker = <<>>
    /\ running_jobs = {}
    /\ future = <<>>
    /\ submitter = <<>>
    /\ blocking = <<>>
    /\ history = <<>>
    /\ clock = 0
    /\ client = IdleClient
    /\ \E messages \in MessageSeqs, target_tokens \in TargetTokens,
          overlap_turns \in 0..MaxOverlapTurns :
            chunker = [IdleChunker EXCEPT !.messages = messages,
                                          !.target_tokens = target_tokens,
                                          !.overlap_turns = overlap_turns]
    /\ server = IdleServer

CallGroupIntoTurns ==
    /\ chunker.turns = NotCalled
    /\ chunker' = [chunker EXCEPT !.turns = Called(group_into_turns(chunker.messages))]
    /\ UNCHANGED chunkOthers

CallChunkMessages ==
    /\ chunker.result = NotCalled
    /\ chunker' = [chunker EXCEPT !.result =
            Called(chunk_messages(chunker.messages, chunker.target_tokens,
                                  chunker.overlap_turns))]
    /\ UNCHANGED chunkOthers

CallShouldChunk ==
    /\ chunker.should = NotCalled
    /\ chunker' = [chunker EXCEPT !.should =
            Called(should_chunk(chunker.messages, chunker.target_tokens))]
    /\ UNCHANGED chunkOthers

CallSizeTest ==
    /\ chunker.inline = NotCalled
    /\ chunker' = [chunker EXCEPT !.inline =
            Called(size_test(chunker.messages, chunker.target_tokens))]
    /\ UNCHANGED chunkOthers

NextChunk ==
    \/ CallGroupIntoTurns
    \/ CallChunkMessages
    \/ CallShouldChunk
    \/ CallSizeTest

SpecChunk == InitChunk /\ [][NextChunk]_vars

\* Readings of a message sequence.
UserIndexes(messages) == { i \in DOMAIN messages : messages[i].role = "user" }

RECURSIVE SumMessageTokens(_)
SumMessageTokens(messages) ==
    IF messages = <<>> THEN 0
    ELSE estimate_message_tokens(Head(messages))
         + With(Tail(messages), LAMBDA rest : SumMessageTokens(rest))

\* The messages from the first user message on.
FromFirstUser(messages) ==
    IF UserIndexes(messages) = {} THEN <<>>
    ELSE SubSeq(messages,
                CHOOSE i \in UserIndexes(messages) :
                    \A k \in UserIndexes(messages) : i <= k,
                Len(messages))

\* The statement as the claim has it: the turns' estimates add up to the
\* estimates of all the messages.
C22_TurnTokensEqualMessageTokens ==
    chunker.turns.called =>
        SumTokens(chunker.turns.value) = SumMessageTokens(chunker.messages)

\* C22: the estimated_tokens of the turns of group_into_turns add up to the
\* estimate_message_tokens of the messages from the first user message on;
\* the assistant messages before it are counted in no turn.
C22_TurnTokensFromFirstUser ==
    chunker.turns.called =>
        SumTokens(chunker.turns.value) =
            SumMessageTokens(FromFirstUser(chunker.messages))

C22_Witness ==
    /\ chunker.turns.called
    /\ Len(chunker.messages) = 5
    /\ [i \in 1..5 |-> chunker.messages[i].role]
            = <<"assistant", "user", "assistant", "assistant", "user">>
    /\ SumTokens(chunker.turns.value) = 60
    /\ SumMessageTokens(chunker.messages) = 80

\* The i-th user message of a sequence, and the reply a turn keeps for it:
\* the last assistant message before the next user message.
NthUser(messages, n) ==
    CHOOSE i \in UserIndexes(messages) :
        Cardinality({ k \in UserIndexes(messages) : k <= i }) = n

RepliesTo(messages, n) ==
    { i \in DOMAIN messages :
        /\ messages[i].role = "assistant"
        /\ i > NthUser(messages, n)
        /\ \A k \in UserIndexes(messages) : k > NthUser(messages, n) => i < k }

\* C23: group_into_turns returns one turn for each user message, in the
\* order of the input; the turn's reply is the last assistant message before
\* the next user message, or none (an open turn, also at the end); an
\* assistant message before every user message is in no turn; no messages,
\* no turns.
C23_OneTurnPerUserMessage ==
    chunker.turns.called =>
        LET messages == chunker.messages
            turns == chunker.turns.value
        IN  /\ Len(turns) = Cardinality(UserIndexes(messages))
            /\ \A n \in DOMAIN turns :
                  /\ turns[n].user_message = messages[NthUser(messages, n)]
                  /\ turns[n].assistant_message =
                        IF RepliesTo(messages, n) = {} THEN NoMessage
                        ELSE messages[CHOOSE i \in RepliesTo(messages, n) :
                                        \A k \in RepliesTo(messages, n) : k <= i]

C23_Witness ==
    /\ chunker.turns.called
    /\ Len(chunker.messages) = 4
    /\ [i \in 1..4 |-> chunker.messages[i].role]
            = <<"assistant", "user", "assistant", "user">>
    /\ Len(chunker.turns.value) = 2
    /\ chunker.turns.value[2].assistant_message = NoMessage
    /\ chunker.messages[1].content # chunker.messages[3].content

\* Readings of a ChunkingResult.
TotalTokens(messages) == estimate_tokens(format_transcript(messages))

\* chunk.messages[chunk.overlap_count:]
NewContent(chunk) == SubSeq(chunk.messages, chunk.overlap_count + 1, Len(chunk.messages))

\* The number of turns that begin in the new content of the chunks before
\* the k-th.
RECURSIVE TurnsBefore(_, _)
TurnsBefore(chunks, k) ==
    IF k <= 1 THEN 0
    ELSE Cardinality(UserIndexes(NewContent(chunks[k - 1])))
         + With(k - 1, LAMBDA i : TurnsBefore(chunks, i))

\* The turns, of all the turns of the messages, that the k-th chunk is the
\* first to hold.
NewTurns(chunks, turns, k) ==
    SubSeq(turns, TurnsBefore(chunks, k) + 1, TurnsBefore(chunks, k + 1))

\* The statement as the claim has it, the empty sequence included.
C24_BelowThresholdOneChunk ==
    (/\ chunker.result.called
     /\ TotalTokens(chunker.messages) <= (8 * chunker.target_tokens) \div 10) =>
        LET r == chunker.result.value IN
        /\ Len(r.chunks) = 1
        /\ r.chunks[1].messages = chunker.messages
        /\ r.was_chunked = FALSE
        /\ r.chunks[1].overlap_count = 0
        /\ r.chunks[1].chunk_index = 0
        /\ r.chunks[1].total_chunks = 1

\* C24: for a sequence of at least one message whose formatted transcript is
\* estimated at no more than floor(0.8 * target_tokens), chunk_messages
\* returns one chunk holding all the messages, with was_chunked false,
\* overlap_count 0, chunk_index 0 and total_chunks 1.
C24_NonEmptyBelowThresholdOneChunk ==
    (/\ chunker.result.called
     /\ chunker.messages # <<>>
     /\ TotalTokens(chunker.messages) <= (8 * chunker.target_tokens) \div 10) =>
        LET r == chunker.result.value IN
        /\ Len(r.chunks) = 1
        /\ r.chunks[1].messages = chunker.messages
        /\ r.was_chunked = FALSE
        /\ r.chunks[1].overlap_count = 0
        /\ r.chunks[1].chunk_index = 0
        /\ r.chunks[1].total_chunks = 1

C24_Witness ==
    /\ chunker.result.called
    /\ Len(chunker.messages) = 3
    /\ TotalTokens(chunker.messages) = (8 * chunker.target_tokens) \div 10
    /\ Len(chunker.result.value.chunks) = 1
    /\ chunker.result.value.chunks[1].messages[1].role = "assistant"

\* C25: when chunk_messages has split, the turns of the messages are dealt
\* out in order, each to one chunk, and the new content of a chunk (its
\* messages after the first overlap_count) is the messages of its turns,
\* whole: a user message and its reply are never in two chunks' new content.
C25_NewContentIsWholeTurns ==
    (chunker.result.called /\ chunker.result.value.was_chunked) =>
        LET chunks == chunker.result.value.chunks
            turns == group_into_turns(chunker.messages)
        IN  /\ TurnsBefore(chunks, Len(chunks) + 1) = Len(turns)
            /\ \A k \in DOMAIN chunks :
                  /\ NewContent(chunks[k]) # <<>>
                  /\ NewContent(chunks[k]) = TurnsMessages(NewTurns(chunks, turns, k))

C25_Witness ==
    /\ chunker.result.called
    /\ chunker.result.value.was_chunked
    /\ Len(chunker.result.value.chunks) = 2
    /\ chunker.result.value.chunks[2].overlap_count = 2
    /\ Len(NewContent(chunker.result.value.chunks[2])) = 2
    /\ [i \in 1..2 |-> NewContent(chunker.result.value.chunks[2])[i].role]
            = <<"user", "assistant">>

\* C26: when chunk_messages has split, the first chunk has overlap_count 0,
\* and every later chunk begins with the messages of the last
\* min(overlap_turns, number of new turns) new turns of the chunk before it,
\* in order, overlap_count being their number.
C26_OverlapIsPredecessorsLastTurns ==
    (chunker.result.called /\ chunker.result.value.was_chunked) =>
        LET chunks == chunker.result.value.chunks
            turns == group_into_turns(chunker.messages)
        IN  /\ TurnsBefore(chunks, Len(chunks) + 1) = Len(turns)
            /\ chunks[1].overlap_count = 0
            /\ \A k \in DOMAIN chunks :
                  k > 1 =>
                    LET prev == NewTurns(chunks, turns, k - 1)
                        n == IF chunker.overlap_turns < Len(prev)
                             THEN chunker.overlap_turns ELSE Len(prev)
                        overlap == TurnsMessages(SubSeq(prev, Len(prev) - n + 1, Len(prev)))
                    IN  /\ chunks[k].overlap_count = Len(overlap)
                        /\ SubSeq(chunks[k].messages, 1, Len(overlap)) = overlap

C26_Witness ==
    /\ chunker.result.called
    /\ chunker.result.value.was_chunked
    /\ chunker.overlap_turns = 1
    /\ Len(chunker.result.value.chunks) = 2
    /\ Len(NewContent(chunker.result.value.chunks[1])) = 3
    /\ NewContent(chunker.result.value.chunks[1])[3].role = "user"
    /\ chunker.result.value.chunks[2].overlap_count = 1

\* C27: in every result of chunk_messages the i-th chunk has chunk_index i,
\* counted from 0, and total_chunks is the number of chunks of the result.
C27_IndexesAndTotal ==
    chunker.result.called =>
        LET chunks == chunker.result.value.chunks IN
        \A i \in DOMAIN chunks :
            /\ chunks[i].chunk_index = i - 1
            /\ chunks[i].total_chunks = Len(chunks)

C27_Witness ==
    /\ chunker.result.called
    /\ chunker.result.value.was_chunked
    /\ Len(chunker.result.value.chunks) = 3
    /\ chunker.result.value.chunks[3].chunk_index = 2

\* C28: when chunk_messages has split, the new turns of a chunk that holds
\* two or more of them are estimated at no more than target_tokens together,
\* and a turn estimated at more than target_tokens is the only new turn of
\* its chunk.
C28_ChunksWithinTarget ==
    (chunker.result.called /\ chunker.result.value.was_chunked) =>
        LET chunks == chunker.result.value.chunks
            turns == group_into_turns(chunker.messages)
        IN  /\ TurnsBefore(chunks, Len(chunks) + 1) = Len(turns)
            /\ \A k \in DOMAIN chunks :
                  LET new == NewTurns(chunks, turns, k) IN
                  /\ Len(new) >= 2 => SumTokens(new) <= chunker.target_tokens
                  /\ \A t \in DOMAIN new :
                        new[t].estimated_tokens > chunker.target_tokens => Len(new) = 1

C28_Witness ==
    /\ chunker.result.called
    /\ chunker.result.value.was_chunked
    /\ chunker.target_tokens = 20
    /\ Len(chunker.result.value.chunks) = 2
    /\ LET chunks == chunker.result.value.chunks
           turns == group_into_turns(chunker.messages)
       IN  /\ Len(NewTurns(chunks, turns, 1)) = 2
           /\ SumTokens(NewTurns(chunks, turns, 1)) = 20
           /\ Len(NewTurns(chunks, turns, 2)) = 1
           /\ SumTokens(NewTurns(chunks, turns, 2)) = 30

\* C29: the estimated_tokens of every chunk of every result is the sum of
\* the estimated_tokens of the turns that are new in it, the overlap adding
\* nothing; the one chunk of a result that was not split holds all the turns.
C29_EstimateIsNewTurns ==
    chunker.result.called =>
        LET r == chunker.result.value
            turns == group_into_turns(chunker.messages)
        IN  IF r.was_chunked
            THEN /\ TurnsBefore(r.chunks, Len(r.chunks) + 1) = Len(turns)
                 /\ \A k \in DOMAIN r.chunks :
                       r.chunks[k].estimated_tokens =
                           SumTokens(NewTurns(r.chunks, turns, k))
            ELSE \A k \in DOMAIN r.chunks :
                       r.chunks[k].estimated_tokens = SumTokens(turns)

\* C30: should_chunk, the was_chunked of chunk_messages and the size test of
\* _run_analysis, on the same messages and threshold, give the same answer:
\* true exactly when the formatted transcript is estimated at more than
\* floor(0.8 * t).
C30_OneSplitDecision ==
    (chunker.should.called /\ chunker.result.called /\ chunker.inline.called) =>
        LET over == TotalTokens(chunker.messages) > (8 * chunker.target_tokens) \div 10 IN
        /\ chunker.should.value = over
        /\ chunker.result.value.was_chunked = over
        /\ chunker.inline.value = over

\* C31: chunk_messages returns for every sequence of user and assistant
\* messages, and its result holds at least one chunk, also when the sequence
\* has no user message.
C31_AtLeastOneChunk ==
    chunker.result.called => Len(chunker.result.value.chunks) >= 1

\* The new content of the chunks, one after the other.
RECURSIVE NewContents(_)
NewContents(chunks) ==
    IF chunks = <<>> THEN <<>>
    ELSE NewContent(Head(chunks))
         \o With(Tail(chunks), LAMBDA rest : NewContents(rest))

\* C32: when chunk_messages has split, the new content of the chunks, taken
\* in chunk_index order, is the messages of the turns of group_into_turns in
\* order: no turn is lost, repeated or moved.
C32_NewContentCoversTurns ==
    (chunker.result.called /\ chunker.result.value.was_chunked) =>
        LET chunks == chunker.result.value.chunks IN
        /\ \A i \in DOMAIN chunks : chunks[i].chunk_index = i - 1
        /\ NewContents(chunks) = TurnsMessages(group_into_turns(chunker.messages))

C32_Witness ==
    /\ chunker.result.called
    /\ chunker.result.value.was_chunked
    /\ Len(chunker.result.value.chunks) = 3
    /\ chunker.result.value.chunks[2].overlap_count = 2
    /\ chunker.result.value.chunks[3].overlap_count = 1
    /\ NewContents(chunker.result.value.chunks) = chunker.messages

\* C33: a result of chunk_messages with was_chunked true holds two chunks or
\* more, and a result of exactly one chunk has was_chunked false.
C33_ChunkedMeansSplit ==
    chunker.result.called =>
        LET r == chunker.result.value IN
        /\ r.was_chunked => Len(r.chunks) >= 2
        /\ Len(r.chunks) = 1 => ~r.was_chunked

\* C34: the estimated_tokens of every turn of group_into_turns is the sum of
\* estimate_message_tokens over the turn's messages, and every assistant
\* message that comes after a user message is among the messages of a turn.
C34_TurnHoldsWhatItCounts ==
    chunker.turns.called =>
        LET turns == chunker.turns.value IN
        /\ \A t \in DOMAIN turns :
              turns[t].estimated_tokens = SumMessageTokens(TurnMessages(turns[t]))
        /\ TurnsMessages(turns) = FromFirstUser(chunker.messages)

(***************************************************************************)
(* core/job_manager.py: is_job_running, and when the backend is called.     *)
(***************************************************************************)
\* return job_id in self._running_jobs
is_job_running(job_id) == job_id \in running_jobs

\* The thread inside submit_analysis has not returned the job yet.
Submitting(j) == submitter.pc # "idle" /\ submitter.job_id = j

\* A generate call of the job has begun and not ended.
CallInFlight(j) ==
    \E c \in DOMAIN history[j].calls : history[j].calls[c].state = "inflight"

C38_CallsOnlyWhileRunning ==
    /\ [] (\A j \in DOMAIN jobs : CallInFlight(j) => jobs[j].status = "RUNNING")
    /\ [][\A j \in DOMAIN jobs :
            history'[j].calls # history[j].calls =>
                /\ jobs[j].status = "RUNNING"
                /\ jobs'[j].status = "RUNNING"]_vars

C38_Witness ==
    \E j \in DOMAIN jobs :
        /\ jobs[j].status = "COMPLETED"
        /\ Len(history[j].calls) >= 3
        /\ \E k \in DOMAIN jobs : k # j /\ CallInFlight(k)

\* C39: every job row whose result_id is not NULL points at a result row
\* that exists, whatever the order of create_job, update_job_status,
\* fail_job, complete_job and cleanup_old_results calls.
C39_ResultIdRefersToResult ==
    \A j \in DOMAIN jobs :
        (jobs[j] # NoRow /\ jobs[j].result_id # NULL) =>
            get_result(results, jobs[j].result_id[1]) # NoRow

C39_Witness ==
    /\ Len(jobs) = 2
    /\ client.deleted >= 1
    /\ jobs[1] = NoRow
    /\ results[1] = NoRow
    /\ jobs[2] # NoRow
    /\ jobs[2].result_id = <<2>>
    /\ results[2] # NoRow

(***************************************************************************)
(* core/ollama.py: generate_sync against OllamaClient.generate.             *)
(***************************************************************************)
\* The other implementation, called with the same max_retries and timeout
\* and given the same answers.
Counterpart(g) ==
    RunCall(NewCall(IF g.impl = "sync" THEN "async" ELSE "sync",
                    g.max_retries, g.timeout),
            Answers(g))

\* C40: on the same answers of the backend and with the same max_retries,
\* generate_sync and OllamaClient.generate make the same number of attempts,
\* sleep the same delays in the same order, and end the same way: both still
\* in the loop, both returning the same response, or both raising an error
\* of the same class.
C40_SyncAsyncAgree ==
    gen.pc # "idle" =>
        LET other == Counterpart(gen) IN
        /\ Attempts(other) = Attempts(gen)
        /\ Sleeps(other) = Sleeps(gen)
        /\ other.pc = gen.pc
        /\ other.response = gen.response
        /\ other.error.cls = gen.error.cls

C40_Witness ==
    /\ gen.impl = "async"
    /\ gen.max_retries = 3
    /\ gen.pc = "raised"
    /\ Len(Answers(gen)) = 4
    /\ Answers(gen)[1].kind = "connect"
    /\ Answers(gen)[2].kind = "timeout"
    /\ Answers(gen)[3].kind = "status"
    /\ Answers(gen)[4].kind = "status" /\ Answers(gen)[4].code = 404
    /\ Len(Sleeps(gen)) = 3

(***************************************************************************)
(* server.py: set_model, get_effective_model, and run_stenographer          *)
(* submitting a job (SpecServer).                                          *)
(***************************************************************************)
\* The arguments set_model is called with, and the model argument of a
\* run_stenographer request ("" when it gives none).
ModelArgs == {"", "default", "Default", "llama3"}
RequestModels == {"", "mistral"}

\* str.lower(), on the names above.
lower(s) == CASE s = "Default" -> "default" [] OTHER -> s

\* A slip: the runtime setting wins over the request's own model.
get_effective_model_RuntimeFirst(request_model) ==
    IF server.runtime_config.model # "" THEN server.runtime_config.model
    ELSE IF request_model # "" THEN request_model
    ELSE DEFAULT_MODEL

\* priority: request > runtime > env default
get_effective_model(request_model) ==
    IF request_model # "" THEN request_model
    ELSE IF server.runtime_config.model # "" THEN server.runtime_config.model
    ELSE DEFAULT_MODEL

\* call_tool, name == "set_model"
set_model(srv, model) ==
    IF lower(model) = "default"
    THEN [srv EXCEPT !.runtime_config.model = "", !.last_set_model = <<model>>]
    ELSE [srv EXCEPT !.runtime_config.model = model, !.last_set_model = <<model>>]

SetModel ==
    /\ \E model \in ModelArgs : server' = set_model(server, model)
    /\ UNCHANGED <<chunker, clock, client, gen, max_workers, jobs, results, work_queue,
                   worker, running_jobs, future, submitter, blocking, history>>

\* call_tool, name == "run_stenographer", not blocking: the model is chosen,
\* then submit_analysis runs up to executor.submit (no chunk prompts are
\* passed).
RunStenographer ==
    /\ submitter.pc = "idle"
    /\ Len(jobs) < MaxJobs
    /\ \E request_model \in RequestModels :
        LET model == get_effective_model(request_model)
            a == [SubmitArg("stenographer", "short", FALSE, FALSE) EXCEPT !.model = model]
        IN  /\ jobs' = create_job(jobs, a.job_type, a.session_file)
            /\ work_queue' = Append(work_queue, [job_id |-> Len(jobs) + 1, item |-> a,
                                                  model |-> ModelOrDefault(a.model)])
            /\ server' = [server EXCEPT !.requests = Append(@,
                    [ request_model |-> request_model,
                      last_set_model |-> server.last_set_model,
                      model |-> model ])]
    /\ future' = Append(future, NewFuture)
    /\ history' = Append(history, NewHistory)
    /\ submitter' = [pc |-> "register", job_id |-> Len(jobs) + 1]
    /\ UNCHANGED <<chunker, clock, client, gen, max_workers, results, worker, running_jobs, blocking>>

NextServer ==
    \/ SetModel
    \/ RunStenographer
    \/ SubmitRegister
    \/ SubmitAddCallback
    \/ \E w \in 1..(MaxPool + 1) : WorkerStep(w)

\* One pool thread is enough for a job to run while set_model is called.
InitServer == InitJobs /\ max_workers = 1

SpecServer == InitServer /\ [][NextServer]_vars

\* The statement as the claim has it: the last set_model value counts unless
\* it is the text 'default'.
C36_ModelPrecedenceExact ==
    /\ \A q \in DOMAIN server.requests :
          LET r == server.requests[q] IN
          r.model = IF r.request_model # "" THEN r.request_model
                    ELSE IF r.last_set_model # NoCall /\ r.last_set_model[1] # "default"
                         THEN r.last_set_model[1]
                    ELSE DEFAULT_MODEL
    /\ server.last_set_model = <<"default">> => get_effective_model("") = DEFAULT_MODEL

\* C36: the model of a request is the request's own model if it gives one,
\* otherwise the value of the last set_model call if that value is not empty
\* and is not 'default' in whatever letter case, otherwise the static
\* default; set_model('default') restores the static default.
C36_ModelPrecedence ==
    /\ \A q \in DOMAIN server.requests :
          LET r == server.requests[q] IN
          r.model = IF r.request_model # "" THEN r.request_model
                    ELSE IF /\ r.last_set_model # NoCall
                            /\ r.last_set_model[1] # ""
                            /\ r.last_set_model[1] \notin {"default", "Default"}
                         THEN r.last_set_model[1]
                    ELSE DEFAULT_MODEL
    /\ server.last_set_model = <<"default">> => get_effective_model("") = DEFAULT_MODEL

C36_Witness ==
    /\ Len(server.requests) = 2
    /\ server.requests[1] = [ request_model |-> "mistral",
                              last_set_model |-> <<"llama3">>, model |-> "mistral" ]
    /\ server.requests[2] = [ request_model |-> "",
                              last_set_model |-> <<"default">>, model |-> DEFAULT_MODEL ]

\* C37: the model given to every generate call of a job, and the model_used
\* of its result, is the model chosen when the job was submitted, whatever
\* set_model calls were made since.
C37_ModelFixedAtSubmit ==
    \A j \in DOMAIN server.requests :
        /\ \A c \in DOMAIN history[j].models :
              history[j].models[c] = server.requests[j].model
        /\ jobs[j].result_id # NULL =>
              get_result(results, jobs[j].result_id[1]).model_used
                  = server.requests[j].model

C37_Witness ==
    \E j \in DOMAIN server.requests :
        /\ server.requests[j].request_model = ""
        /\ server.requests[j].model = "llama3"
        /\ CallInFlight(j)
        /\ history[j].models = <<"llama3">>
        /\ server.last_set_model = <<"default">>
        /\ get_effective_model("") = DEFAULT_MODEL

=============================================================================
